---------------------------- MODULE Spec2Model ----------------------------
(***************************************************************************)
(* A model of jExam (src/jexam/parser.py): the notebook parser, the        *)
(* Question/Version model with its version-selection cycle, and main's     *)
(* generation of the autograder notebook and of the exam instances.        *)
(*                                                                         *)
(* The specifications share the variables:                                 *)
(*   SpecParse  parse_notebook's loop, one cell of an arbitrary notebook   *)
(*              per step;                                                  *)
(*   Spec       one run of main on a master notebook drawn from Docs;      *)
(*   SpecRuns   Spec followed by a second run of main in the same process  *)
(*              on the same master and arguments (as the test suite does); *)
(*   SpecSolutions  replace_solutions' loop, one line per step;            *)
(*   SpecCells  replace_cell_solutions on an arbitrary cell.               *)
(***************************************************************************)
EXTENDS Integers, Sequences, FiniteSets, TLC

VARIABLES
    pc,         \* position of the program
    err,        \* the exception that ended the program ("" while none)
    args,       \* main's argparse.Namespace: [seed, quiet]
    nb,         \* main's master notebook: the sequence of its cells
    cell,       \* parse_notebook's loop variable: the cell of this iteration
    ncells,     \* number of cells parse_notebook's loop has consumed
    block,      \* history: the cells consumed since the last accepted BEGIN QUESTION
    parser,     \* parse_notebook's locals
    Exam,       \* the class attributes of Exam
    rng,        \* np.random's state: [seed, n], n draws made since seeding
    stream,     \* the generator's outputs revealed so far, per (seed, draw number)
    fs,         \* the files written under args.result
    loop,       \* locals of main's loop and of create_and_write_exam_instance
    log,        \* history: the draws made, in order: instance i, question q,
                \* version v, and the length u of unused_versions at the call
    runNo,      \* which run of main in this process this is
    prev,       \* history: the first run's log and files
    sol,        \* replace_solutions: the lines its loop has consumed and its
                \* locals [stripped, solution, err]
    new_cell,   \* the cell replace_cell_solutions returned
    generated   \* the calls of utils.generate this run of main has made

vars == <<pc, err, args, nb, cell, ncells, block, parser, Exam, rng, stream, fs, loop, log, runNo, prev, sol, new_cell, generated>>

---------------------------------------------------------------------------
(* Bounds of the model.                                                    *)

\* Longest cell sequence SpecParse feeds to parse_notebook.
MaxCells == 5

\* Most versions of the first question in the notebooks of Docs.
MaxVersions == 3

\* Largest num_students in the exam configs of Docs.
MaxStudents == 4

---------------------------------------------------------------------------
(* Cells.  A cell is [cell_type, source, yaml]: source is the list of     *)
(* lines get_source returns; for a delimiter cell source holds its first   *)
(* line and yaml is the value yaml.full_load gives for the lines after it. *)

NoYaml == << >>

Cell(t, first, y) == [cell_type |-> t, source |-> <<first>>, yaml |-> y]

RawCell(first) == Cell("raw", first, NoYaml)

is_raw_cell(c) == c.cell_type = "raw"

get_source(c) == c.source

\* The first line with leading whitespace dropped and upper-cased: what
\* re.match(r"\s*<PHRASE>\s*", line, flags=re.IGNORECASE) compares with PHRASE.
FoldLine(line) ==
    CASE line = "  end question" -> "END QUESTION"
      [] OTHER -> line

BEGIN_REGEXES(delim) ==
    CASE delim = "exam"         -> "BEGIN EXAM"
      [] delim = "introduction" -> "BEGIN INTRODUCTION"
      [] delim = "question"     -> "BEGIN QUESTION"
      [] delim = "version"      -> "BEGIN VERSION"
      [] delim = "conclusion"   -> "BEGIN CONCLUSION"

END_REGEXES(delim) ==
    CASE delim = "introduction" -> "END INTRODUCTION"
      [] delim = "question"     -> "END QUESTION"
      [] delim = "version"      -> "END VERSION"
      [] delim = "conclusion"   -> "END CONCLUSION"

is_delim_cell(c, delim, begin) ==
    IF ~is_raw_cell(c) THEN FALSE
    ELSE IF begin THEN FoldLine(get_source(c)[1]) = BEGIN_REGEXES(delim)
    ELSE FoldLine(get_source(c)[1]) = END_REGEXES(delim)

get_delim_config(c, delim) == c.yaml

\* Body applied to the value of x: x is evaluated once, however often Body
\* uses it.
Let(x, Body(_)) == CHOOSE y \in {Body(v) : v \in {x}} : TRUE

\* dict.get(key, default)
Get(d, key, default) == IF key \in DOMAIN d THEN d[key] ELSE default

RECURSIVE JoinLines(_)
\* "\n".join(lines)
JoinLines(lines) ==
    IF Len(lines) = 0 THEN ""
    ELSE IF Len(lines) = 1 THEN lines[1]
    ELSE lines[1] \o "\n" \o JoinLines(Tail(lines))

---------------------------------------------------------------------------
(* Code and Markdown cells.  A code cell has outputs, a list of output     *)
(* records: a stream output has "text", an execute_result has "data" with  *)
(* a "text/plain" entry.  Lines are matched against the regular            *)
(* expressions of the source by tables over the lines the notebooks of     *)
(* this model are written with.                                            *)

CodeCell(lines, outputs) ==
    [cell_type |-> "code", source |-> lines, yaml |-> NoYaml, outputs |-> outputs]

MarkdownCell(lines) == [cell_type |-> "markdown", source |-> lines, yaml |-> NoYaml]

\* nbformat.v4.new_code_cell(source): no outputs
new_code_cell(lines) == CodeCell(lines, << >>)

\* nbformat.v4.new_markdown_cell(source)
new_markdown_cell(lines) == MarkdownCell(lines)

is_markdown_cell(c) == c.cell_type = "markdown"

is_code_cell(c) == c.cell_type = "code"

\* for cell in nb['cells']: if 'outputs' in cell: cell['outputs'] = []
remove_output(cells) ==
    [k \in 1..Len(cells) |->
        IF "outputs" \in DOMAIN cells[k] THEN [cells[k] EXCEPT !.outputs = << >>]
        ELSE cells[k]]

\* re.match(TEST_REGEX, line, flags=re.IGNORECASE)
MatchesTestRegex(line) == line \in {"# TEST", "# HIDDEN TEST", "## hidden test ##"}

\* re.search("hidden", line, flags=re.IGNORECASE)
SearchHidden(line) == line \in {"# HIDDEN TEST", "## hidden test ##"}

is_test_cell(c) ==
    IF c.cell_type # "code" THEN FALSE
    ELSE Len(get_source(c)) > 0 /\ MatchesTestRegex(get_source(c)[1])

RECURSIVE OutputText(_)
\* read_test's loop over cell['outputs']: the text of each output, then its
\* data's text/plain (a string in the notebooks of this model).
OutputText(outputs) ==
    IF Len(outputs) = 0 THEN ""
    ELSE Get(outputs[1], "text", "")
         \o Get(Get(outputs[1], "data", NoYaml), "text/plain", "")
         \o OutputText(Tail(outputs))

Test(input, output, hidden) == [input |-> input, output |-> output, hidden |-> hidden]

---------------------------------------------------------------------------
(* Tests: read_test, and the OK-format suite gen_test_cell writes.         *)

\* The lines the test cells of this model have after their header line.
TestInputLines == {"", "x == 1", "x > 0", "    pass", "else:"}

\* s.split("\n"): the lines that joined by "\n" give s
SplitLines(s) ==
    CHOOSE ls \in UNION {[1..n -> TestInputLines] : n \in 1..2} : JoinLines(ls) = s

read_test(c) ==
    Test(JoinLines(Tail(get_source(c))), OutputText(c.outputs), SearchHidden(get_source(c)[1]))

\* line.startswith(" ") or line.startswith("\t")
StartsIndented(line) == line \in {"    pass"}

\* line.startswith("except:") or ... "elif " ... "else:" ... "finally:"
StartsClause(line) == line \in {"else:"}

\* line.strip().endswith("\\"): no line of this model ends with a backslash
EndsBackslash(line) == FALSE

\* line.strip(), for the lines of TestInputLines
Strip(line) == IF line = "    pass" THEN "pass" ELSE line

RECURSIVE str_to_doctest(_, _)
\* A doctest line is [prefix, line]: the text is prefix \o line.
str_to_doctest(code_lines, lines) ==
    IF Len(code_lines) = 0 THEN lines
    ELSE LET line == Head(code_lines)
             cont == \/ StartsIndented(line)
                     \/ StartsClause(line)
                     \/ Len(lines) > 0 /\ EndsBackslash(lines[Len(lines)].line)
         IN  str_to_doctest(Tail(code_lines),
                 Append(lines, [prefix |-> IF cont THEN "... " ELSE ">>> ", line |-> line]))

\* gen_case's loop: ";" after a line that is followed by a ">>>" line, is
\* longer than its prompt and does not end with a backslash.
WithSemicolons(dl) ==
    [i \in 1..Len(dl) |->
        IF /\ i < Len(dl)
           /\ dl[i + 1].prefix = ">>> "
           /\ Strip(dl[i].line) # ""
           /\ ~EndsBackslash(dl[i].line)
        THEN dl[i].prefix \o dl[i].line \o ";"
        ELSE dl[i].prefix \o dl[i].line]

gen_case(test) ==
    [code   |-> JoinLines(Append(WithSemicolons(str_to_doctest(SplitLines(test.input), << >>)),
                                 test.output)),
     hidden |-> test.hidden,
     locked |-> FALSE]

gen_suite(tests) ==
    [cases |-> [i \in 1..Len(tests) |-> gen_case(tests[i])],
     scored |-> TRUE, setup |-> "", teardown |-> "", type |-> "doctest"]

---------------------------------------------------------------------------
(* Solutions: replace_solutions and replace_cell_solutions.                *)

\* any(line.endswith(s) for s in skip_suffixes)
EndsWithSkipSuffix(line) ==
    line \in {"z = 3 # SOLUTION NO PROMPT", "# BEGIN PROMPT", "# END PROMPT"}

\* line.endswith('# END SOLUTION')
EndsWithEndSolution(line) == line \in {"# END SOLUTION", "    # END SOLUTION"}

\* begin_solution_re with a first group that captures nothing.
begin_solution_reNoIndent(line) ==
    CASE line \in {"# BEGIN SOLUTION", "    # BEGIN SOLUTION"} -> <<[indent |-> "", no_prompt |-> FALSE]>>
      [] line = "# BEGIN SOLUTION NO PROMPT" -> <<[indent |-> "", no_prompt |-> TRUE]>>
      [] OTHER -> << >>

\* begin_solution_re.match(line): << >> for no match, else the groups
begin_solution_re(line) ==
    CASE line = "# BEGIN SOLUTION"           -> <<[indent |-> "", no_prompt |-> FALSE]>>
      [] line = "    # BEGIN SOLUTION"       -> <<[indent |-> "    ", no_prompt |-> FALSE]>>
      [] line = "# BEGIN SOLUTION NO PROMPT" -> <<[indent |-> "", no_prompt |-> TRUE]>>
      [] OTHER -> << >>

\* The line after SUBSTITUTIONS: solution_assignment_re, then solution_line_re.
\* solution_assignment_re matches a line whose text up to the first "=" is of
\* letters, digits, "_" and spaces; solution_line_re one with no "#" before
\* the marker.
Substituted(line) ==
    CASE line = "x = 1 # SOLUTION"      -> "x = ..."
      [] line = "    x = 1 # SOLUTION"  -> "    x = ..."
      [] line = "f(x) # SOLUTION"       -> "..."
      [] line = "d[0] = 1 # SOLUTION"   -> "..."
      [] line = "print('#') # SOLUTION" -> line
      [] OTHER -> line

ReplaceInit == [stripped |-> << >>, solution |-> FALSE, err |-> ""]

\* One iteration of replace_solutions' loop, from the locals st.
ReplaceLine(st, line) ==
    IF EndsWithSkipSuffix(line) THEN st
    ELSE IF st.solution /\ ~EndsWithEndSolution(line) THEN st
    ELSE IF EndsWithEndSolution(line)
         THEN IF st.solution THEN [st EXCEPT !.solution = FALSE]
              ELSE [st EXCEPT !.err = "END SOLUTION without BEGIN SOLUTION"]
    ELSE LET begin_solution == begin_solution_re(line)
         IN  IF begin_solution # << >>
             THEN IF st.solution THEN [st EXCEPT !.err = "Nested BEGIN SOLUTION"]
                  ELSE IF ~begin_solution[1].no_prompt
                  THEN [st EXCEPT !.solution = TRUE,
                                  !.stripped = Append(@, Substituted(begin_solution[1].indent \o "..."))]
                  ELSE [st EXCEPT !.solution = TRUE]
             ELSE [st EXCEPT !.stripped = Append(@, Substituted(line))]

\* replace_solutions without the assert after its loop.
ReplaceEndNoAssert(st) == st

\* The assert after the loop.
ReplaceEnd(st) ==
    IF st.solution THEN [st EXCEPT !.err = "BEGIN SOLUTION without END SOLUTION"] ELSE st

RECURSIVE ReplaceFrom(_, _, _)
ReplaceFrom(st, lines, i) ==
    IF i > Len(lines) THEN ReplaceEnd(st)
    ELSE LET r == ReplaceLine(st, lines[i])
         IN  IF r.err # "" THEN r ELSE ReplaceFrom(r, lines, i + 1)

\* [stripped, solution, err]: the lines returned, or the AssertionError raised
replace_solutions(lines) == ReplaceFrom(ReplaceInit, lines, 1)

\* Every Markdown cell taken for a solution cell.
is_markdown_solution_cellAny(c) == is_markdown_cell(c)

\* re.match(MD_SOLUTION_REGEX, l, flags=re.IGNORECASE) for a line l of the cell
is_markdown_solution_cell(c) ==
    IF ~is_markdown_cell(c) THEN FALSE
    ELSE \E k \in 1..Len(get_source(c)) : get_source(c)[k] \in {"**SOLUTION:**", "**solution**"}

MARKDOWN_ANSWER_CELL_TEMPLATE ==
    new_markdown_cell(<<"_Type your answer here, replacing this text._">>)

\* get_source of a cell whose source is "\n".join(lines): "".split("\n") is [""]
SplitJoined(lines) == IF Len(lines) = 0 THEN <<"">> ELSE lines

\* [cell, err]: the sanitized copy of the cell, or the AssertionError raised
replace_cell_solutions(c) ==
    IF is_markdown_solution_cell(c) THEN [cell |-> MARKDOWN_ANSWER_CELL_TEMPLATE, err |-> ""]
    ELSE IF is_code_cell(c)
    THEN LET r == replace_solutions(get_source(c))
         IN  [cell |-> [c EXCEPT !.source = SplitJoined(r.stripped)], err |-> r.err]
    ELSE [cell |-> c, err |-> ""]

---------------------------------------------------------------------------
(* Version and Question.                                                   *)

\* cells_with_solutions and cells_without_solutions are None (<< >>) or a
\* list (<<list>>).
Version(cells) ==
    [original_cells |-> cells, cells_with_solutions |-> << >>,
     cells_without_solutions |-> << >>, tests |-> << >>]

RECURSIVE ParseCellsFrom(_, _)
\* The loop of Version._parse_cells from cell i of original_cells on.
ParseCellsFrom(r, i) ==
    IF i > Len(r.version.original_cells) THEN r
    ELSE LET c == r.version.original_cells[i]
             v == r.version
         IN  IF is_test_cell(c)
             THEN Let([r EXCEPT !.version.tests = Append(@, read_test(c))],
                      LAMBDA s : ParseCellsFrom(s, i + 1))
             ELSE Let(replace_cell_solutions(c), LAMBDA w :
                      IF w.err # ""
                      THEN [version |-> [v EXCEPT !.cells_with_solutions[1] = Append(@, c)],
                            err |-> w.err]
                      ELSE Let([r EXCEPT !.version.cells_with_solutions[1] = Append(@, c),
                                         !.version.cells_without_solutions[1] = Append(@, w.cell)],
                               LAMBDA s : ParseCellsFrom(s, i + 1)))

\* [version, err]: the version parsed, or as the AssertionError left it
_parse_cells(version) ==
    ParseCellsFrom([version |-> [version EXCEPT !.cells_with_solutions = << << >> >>,
                                                !.cells_without_solutions = << << >> >>],
                    err |-> ""], 1)

\* A plausible slip: the cells without solutions are returned in either case.
get_cellsWithoutSolutions(version, include_solutions) ==
    LET r == _parse_cells(version)
    IN  [version |-> r.version,
         cells   |-> IF r.err # "" THEN << >> ELSE r.version.cells_without_solutions[1],
         err     |-> r.err]

\* A plausible slip: the version is parsed at every call.
get_cellsAlwaysParses(version, include_solutions) ==
    Let(_parse_cells(version), LAMBDA r :
            [version |-> r.version,
             cells   |-> IF r.err # "" THEN << >>
                         ELSE IF include_solutions THEN r.version.cells_with_solutions[1]
                         ELSE r.version.cells_without_solutions[1],
             err     |-> r.err])

\* [version, cells, err]
get_cells(version, include_solutions) ==
    Let(IF version.cells_with_solutions = << >> \/ version.cells_without_solutions = << >>
        THEN _parse_cells(version)
        ELSE [version |-> version, err |-> ""],
        LAMBDA r :
            [version |-> r.version,
             cells   |-> IF r.err # "" THEN << >>
                         ELSE IF include_solutions THEN r.version.cells_with_solutions[1]
                         ELSE r.version.cells_without_solutions[1],
             err     |-> r.err])

\* list(range(n)), the indices 0 .. n-1 in order
RangeList(n) == [i \in 1..n |-> i - 1]

Question(versions, points, manual) ==
    [versions |-> versions, points |-> points, manual |-> manual,
     unused_versions |-> RangeList(Len(versions))]

---------------------------------------------------------------------------
(* parse_notebook.                                                         *)

NoExam == [config |-> NoYaml, questions |-> << >>, introduction |-> << >>, conclusion |-> << >>]

ParserInit ==
    [in_introduction |-> FALSE, in_question |-> FALSE, in_version |-> FALSE,
     in_conclusion |-> FALSE, cells |-> << >>, config |-> NoYaml,
     questions |-> << >>, versions |-> << >>]

NoBlockOpen(p) ==
    ~p.in_introduction /\ ~p.in_question /\ ~p.in_version /\ ~p.in_conclusion

Ok(p, E) == [p |-> p, E |-> E, err |-> ""]

Raise(p, E, msg) == [p |-> p, E |-> E, err |-> msg]

\* A plausible slip: the implicit version is never made.
CloseVersionsNoImplicit(p) == p.versions

\* A plausible slip: the buffered cells make a version whenever there are any.
CloseVersionsTrailingToo(p) ==
    IF Len(p.cells) > 0 THEN Append(p.versions, Version(p.cells)) ELSE p.versions

\* The versions a question block closes with: the declared ones, or one
\* implicit version made of the buffered cells.
CloseVersions(p) ==
    IF Len(p.versions) = 0 /\ Len(p.cells) > 0 THEN <<Version(p.cells)>> ELSE p.versions

IsBeginCell(c) ==
    \E d \in {"exam", "introduction", "question", "version", "conclusion"} :
        is_delim_cell(c, d, TRUE)

EndKinds == {"introduction", "question", "version", "conclusion"}

IsEndCell(c) == \E d \in EndKinds : is_delim_cell(c, d, FALSE)

IsOpen(p, d) ==
    CASE d = "introduction" -> p.in_introduction
      [] d = "question"     -> p.in_question
      [] d = "version"      -> p.in_version
      [] d = "conclusion"   -> p.in_conclusion

\* A plausible slip: BEGIN VERSION is checked against the question block only.
BeginCellVersionInVersion(p, E, c) ==
    IF is_delim_cell(c, "exam", TRUE) THEN
        Ok(p, [E EXCEPT !.config = get_delim_config(c, "exam")])
    ELSE IF is_delim_cell(c, "introduction", TRUE) THEN
        IF NoBlockOpen(p) THEN Ok([p EXCEPT !.in_introduction = TRUE], E)
        ELSE Raise(p, E, "BEGIN INTRODUCTION detected inside another block")
    ELSE IF is_delim_cell(c, "question", TRUE) THEN
        IF NoBlockOpen(p)
        THEN Ok([p EXCEPT !.in_question = TRUE, !.config = get_delim_config(c, "question")], E)
        ELSE Raise(p, E, "BEGIN QUESTION detected inside another block")
    ELSE IF is_delim_cell(c, "version", TRUE) THEN
        IF p.in_question
        THEN Ok([p EXCEPT !.in_version = TRUE], E)
        ELSE Raise(p, E, "BEGIN VERSION detected inside an incompatible block or outside a question block")
    ELSE
        IF NoBlockOpen(p) THEN Ok([p EXCEPT !.in_conclusion = TRUE], E)
        ELSE Raise(p, E, "BEGIN CONCLUSION detected inside another block")

\* The branches for BEGIN cells.
BeginCell(p, E, c) ==
    IF is_delim_cell(c, "exam", TRUE) THEN
        Ok(p, [E EXCEPT !.config = get_delim_config(c, "exam")])
    ELSE IF is_delim_cell(c, "introduction", TRUE) THEN
        IF NoBlockOpen(p) THEN Ok([p EXCEPT !.in_introduction = TRUE], E)
        ELSE Raise(p, E, "BEGIN INTRODUCTION detected inside another block")
    ELSE IF is_delim_cell(c, "question", TRUE) THEN
        IF NoBlockOpen(p)
        THEN Ok([p EXCEPT !.in_question = TRUE, !.config = get_delim_config(c, "question")], E)
        ELSE Raise(p, E, "BEGIN QUESTION detected inside another block")
    ELSE IF is_delim_cell(c, "version", TRUE) THEN
        IF ~p.in_introduction /\ p.in_question /\ ~p.in_version /\ ~p.in_conclusion
        THEN Ok([p EXCEPT !.in_version = TRUE], E)
        ELSE Raise(p, E, "BEGIN VERSION detected inside an incompatible block or outside a question block")
    ELSE
        IF NoBlockOpen(p) THEN Ok([p EXCEPT !.in_conclusion = TRUE], E)
        ELSE Raise(p, E, "BEGIN CONCLUSION detected inside another block")

\* Whether the cell is the END cell of a block that is open.
ClosesBlock(p, c) == \E d \in EndKinds : IsOpen(p, d) /\ is_delim_cell(c, d, FALSE)

\* The branches for the END cell of an open block, in the order of the code.
EndCell(p, E, c) ==
    IF p.in_introduction /\ is_delim_cell(c, "introduction", FALSE) THEN
        Ok([p EXCEPT !.in_introduction = FALSE, !.cells = << >>],
           [E EXCEPT !.introduction = p.cells])
    ELSE IF p.in_question /\ is_delim_cell(c, "question", FALSE) THEN
        Ok([p EXCEPT !.in_question = FALSE,
                     !.questions = Append(p.questions,
                         Question(CloseVersions(p), Get(p.config, "points", 1),
                                  Get(p.config, "manual", FALSE))),
                     !.versions = << >>, !.config = NoYaml, !.cells = << >>], E)
    ELSE IF p.in_version /\ is_delim_cell(c, "version", FALSE) THEN
        Ok([p EXCEPT !.in_version = FALSE,
                     !.versions = Append(p.versions, Version(p.cells)),
                     !.cells = << >>], E)
    ELSE
        Ok([p EXCEPT !.in_conclusion = FALSE, !.cells = << >>],
           [E EXCEPT !.conclusion = p.cells])

\* A plausible slip: the check for a stray END VERSION is missing, and the
\* cell is treated like any other cell.
StrayEndNoVersionCheck(p, E, c) ==
    IF is_delim_cell(c, "introduction", FALSE) THEN
        Raise(p, E, "END INTRODUCTION found outside introduction block")
    ELSE IF is_delim_cell(c, "question", FALSE) THEN
        Raise(p, E, "END QUESTION found outside question block")
    ELSE IF is_delim_cell(c, "version", FALSE) THEN
        Ok([p EXCEPT !.cells = Append(p.cells, c)], E)
    ELSE
        Raise(p, E, "END CONCLUSION found outside conclusion block")

\* The branches for an END cell whose block is not open.
StrayEnd(p, E, c) ==
    IF is_delim_cell(c, "introduction", FALSE) THEN
        Raise(p, E, "END INTRODUCTION found outside introduction block")
    ELSE IF is_delim_cell(c, "question", FALSE) THEN
        Raise(p, E, "END QUESTION found outside question block")
    ELSE IF is_delim_cell(c, "version", FALSE) THEN
        Raise(p, E, "END VERSION found outside version block")
    ELSE
        Raise(p, E, "END CONCLUSION found outside conclusion block")

\* A plausible slip: the cell is collected whether or not a block is open.
OtherCellAlwaysCollected(p, E, c) == Ok([p EXCEPT !.cells = Append(p.cells, c)], E)

\* The last two branches: a cell that is no BEGIN and no END cell.
OtherCell(p, E, c) ==
    IF p.in_introduction \/ p.in_question \/ p.in_version \/ p.in_conclusion
    THEN Ok([p EXCEPT !.cells = Append(p.cells, c)], E)
    ELSE Raise(p, E, "Cell found outside a block")

\* The body of the loop for one cell, up to the assignment of Exam.questions.
ParseCell(p, E, c) ==
    IF IsBeginCell(c) THEN BeginCell(p, E, c)
    ELSE IF ClosesBlock(p, c) THEN EndCell(p, E, c)
    ELSE IF IsEndCell(c) THEN StrayEnd(p, E, c)
    ELSE OtherCell(p, E, c)

\* One iteration of the loop: the body, then Exam.questions = questions.
ParseIteration(p, E, c) ==
    LET r == ParseCell(p, E, c)
    IN  IF r.err = "" THEN Ok(r.p, [r.E EXCEPT !.questions = r.p.questions]) ELSE r

---------------------------------------------------------------------------
(* SpecParse: parse_notebook on an arbitrary notebook.  The notebook's     *)
(* cells are drawn one per iteration from Cells.                           *)

QuestionYamls == {NoYaml, ("points" :> 2) @@ ("manual" :> TRUE)}

ParseExamYamls == {("num_students" :> 1) @@ ("num_questions" :> 1)}

DelimLines ==
    {"BEGIN INTRODUCTION", "END INTRODUCTION", "END QUESTION", "  end question",
     "BEGIN VERSION", "END VERSION", "BEGIN CONCLUSION", "END CONCLUSION"}

\* Cells that are no delimiter: a code cell, a Markdown cell, and a Markdown
\* cell whose first line reads like a delimiter (only raw cells delimit).
ContentCells ==
    {Cell("code", "a", NoYaml), Cell("markdown", "b", NoYaml),
     Cell("markdown", "END QUESTION", NoYaml)}

Cells ==
    {Cell("raw", "BEGIN EXAM", y) : y \in ParseExamYamls}
    \cup {Cell("raw", "BEGIN QUESTION", y) : y \in QuestionYamls}
    \cup {RawCell(l) : l \in DelimLines}
    \cup ContentCells

NoCell == Cell("none", "", NoYaml)

NoArgs == [seed |-> 0, quiet |-> FALSE]

NoRng == [seed |-> 0, n |-> 0]

NoLoop == [i |-> 0, question_idx |-> << >>, j |-> 0, student |-> << >>]

NoPrev == [log |-> << >>, fs |-> << >>]

NoSol == [lines |-> << >>, st |-> ReplaceInit]

\* The variables main uses and parse_notebook does not.
mainVars == <<args, nb, rng, stream, fs, loop, log, runNo, prev, sol, new_cell, generated>>

InitParse ==
    /\ pc = "parsing"
    /\ err = ""
    /\ cell = NoCell
    /\ ncells = 0
    /\ block = << >>
    /\ parser = ParserInit
    /\ Exam = NoExam
    /\ args = NoArgs
    /\ nb = << >>
    /\ rng = NoRng
    /\ stream = << >>
    /\ fs = << >>
    /\ loop = NoLoop
    /\ log = << >>
    /\ runNo = 1
    /\ prev = NoPrev
    /\ sol = NoSol
    /\ new_cell = NoCell
    /\ generated = 0

\* The cells met since the last BEGIN QUESTION, the closing END QUESTION excluded.
BlockAfter(p, q, c) ==
    IF ~p.in_question /\ q.in_question THEN << >>
    ELSE IF p.in_question /\ q.in_question THEN Append(block, c)
    ELSE IF p.in_question THEN block
    ELSE << >>

\* An iteration that raises nothing.
ParseAccept(c) ==
    /\ pc = "parsing"
    /\ ncells < MaxCells
    /\ LET r == ParseIteration(parser, Exam, c)
       IN  /\ r.err = ""
           /\ parser' = r.p
           /\ Exam' = r.E
           /\ block' = BlockAfter(parser, r.p, c)
    /\ cell' = c
    /\ ncells' = ncells + 1
    /\ UNCHANGED <<pc, err, mainVars>>

\* An iteration that raises AssertionError: parse_notebook ends there.
ParseRaise(c) ==
    /\ pc = "parsing"
    /\ ncells < MaxCells
    /\ LET r == ParseIteration(parser, Exam, c)
       IN  /\ r.err # ""
           /\ err' = r.err
    /\ pc' = "failed"
    /\ cell' = c
    /\ ncells' = ncells + 1
    /\ UNCHANGED <<block, parser, Exam, mainVars>>

\* nb.cells is exhausted: parse_notebook returns.
ParseReturn ==
    /\ pc = "parsing"
    /\ pc' = "parsed"
    /\ UNCHANGED <<err, cell, ncells, block, parser, Exam, mainVars>>

NextParse ==
    \/ \E c \in Cells : ParseAccept(c)
    \/ \E c \in Cells : ParseRaise(c)
    \/ ParseReturn

SpecParse == InitParse /\ [][NextParse]_vars

---------------------------------------------------------------------------
(* main: the master notebooks and the arguments of the runs modelled.      *)

\* Largest num_students in the runs of SpecRuns, which run main twice.
MaxRunStudents == 2

\* seed = args.seed or Exam.config.get("seed", 42): the fallback.
DefaultSeed == 42

ArgSeed == 150

\* master.name
nb_name == "exam.ipynb"

Cfg(ns, nq, pub) ==
    ("num_students" :> ns) @@ ("num_questions" :> nq) @@ ("public_tests" :> pub)

\* A generate mapping: the options of the packaging step.
GenerateCfg == ("points" :> 1)

\* The exam configs: complete ones, ones with a required key missing, and one
\* that asks for the packaging step.
ExamCfgs ==
    {Cfg(MaxStudents, 1, FALSE), Cfg(MaxRunStudents, 2, TRUE),
     ("seed" :> 7) @@ Cfg(MaxRunStudents, 1, FALSE), NoYaml, ("num_students" :> MaxRunStudents), ("num_questions" :> 1),
     ("num_students" :> 0), ("generate" :> GenerateCfg) @@ Cfg(MaxRunStudents, 1, FALSE)}

\* The content cell of version v of question q: a code cell with a solution
\* line and an output.
VersionCell(q, v) ==
    CodeCell(<<"q" \o ToString(q) \o "v" \o ToString(v) \o " = 1", "x = 1 # SOLUTION">>,
             <<[text |-> "1"]>>)

TestCell(header, line, out) ==
    CodeCell(<<header, line>>, <<[data |-> ("text/plain" :> out)]>>)

\* The test cells of a version: a public test between hidden ones.
TestCells ==
    <<TestCell("# HIDDEN TEST", "x > 0", "True"), TestCell("# TEST", "x == 1", "True"),
      TestCell("## hidden test ##", "else:", "")>>

\* A Markdown cell that is a solution, and a code cell with a solution block.
SolutionCells ==
    <<MarkdownCell(<<"**SOLUTION:**", "42">>),
      CodeCell(<<"# BEGIN SOLUTION", "y = 2", "# END SOLUTION", "f(x) # SOLUTION">>, << >>)>>

\* A code cell whose solution block is not closed.
UnclosedSolutionCell == CodeCell(<<"# BEGIN SOLUTION NO PROMPT", "y = 2">>, << >>)

RECURSIVE DeclaredVersions(_, _)
\* k version blocks of question q, each of a content cell and test cells
DeclaredVersions(q, k) ==
    IF k = 0 THEN << >>
    ELSE DeclaredVersions(q, k - 1)
         \o <<RawCell("BEGIN VERSION"), VersionCell(q, k)>> \o TestCells
         \o <<RawCell("END VERSION")>>

\* A question block with k declared versions (none at all when k = 0).
DeclaredQuestion(q, k, y) ==
    <<Cell("raw", "BEGIN QUESTION", y)>> \o DeclaredVersions(q, k) \o <<RawCell("END QUESTION")>>

\* A question block with no version block: a content cell, solution cells
\* and a public test.
ImplicitQuestion(q, y) ==
    <<Cell("raw", "BEGIN QUESTION", y), VersionCell(q, 1)>> \o SolutionCells
        \o <<TestCell("# TEST", "x == 1", "True"), RawCell("END QUESTION")>>

SecondQuestions ==
    {<< >>} \cup {ImplicitQuestion(2, y) : y \in QuestionYamls}

Introduction ==
    <<RawCell("BEGIN INTRODUCTION"), Cell("markdown", "Welcome", NoYaml),
      CodeCell(<<"import numpy as np">>, <<[text |-> "loaded"]>>), RawCell("END INTRODUCTION")>>

Conclusion ==
    <<RawCell("BEGIN CONCLUSION"), Cell("markdown", "The end", NoYaml),
      CodeCell(<<"print(1)">>, <<[text |-> "1"]>>), RawCell("END CONCLUSION")>>

\* The master notebooks: an exam config, an introduction, a first question
\* of 0 .. MaxVersions declared versions, at most one more question, a
\* conclusion; a notebook that is malformed; and one with a solution block
\* that is not closed.
Docs ==
    {<<Cell("raw", "BEGIN EXAM", c)>> \o Introduction \o DeclaredQuestion(1, k, NoYaml) \o q2 \o Conclusion :
        c \in ExamCfgs, k \in 0..MaxVersions, q2 \in SecondQuestions}
    \cup {Introduction \o <<Cell("markdown", "stray", NoYaml)>>}
    \cup {<<Cell("raw", "BEGIN EXAM", Cfg(1, 1, TRUE))>> \o DeclaredQuestion(1, 1, NoYaml)
            \o <<RawCell("BEGIN QUESTION"), UnclosedSolutionCell, RawCell("END QUESTION")>>}

\* args.seed is None (<< >>) or an integer (<<s>>); args.quiet is set by -q.
Args == {[seed |-> s, quiet |-> q] : s \in {<< >>, <<0>>, <<ArgSeed>>}, q \in BOOLEAN}

\* np.random before any seeding: no seed of the program's.
Unseeded == [seed |-> -1, n |-> 0]

\* main is run on a master of Docs; with an explicit seed, on one of at most
\* MaxRunStudents students; with -q, on one whose config asks for the
\* packaging step.
Init ==
    /\ pc = "main"
    /\ err = ""
    /\ args \in Args
    /\ nb \in Docs
    /\ args.seed # << >> => Get(nb[1].yaml, "num_students", 0) <= MaxRunStudents
    /\ args.quiet => Get(nb[1].yaml, "generate", NoYaml) # NoYaml
    /\ cell = NoCell
    /\ ncells = 0
    /\ block = << >>
    /\ parser = ParserInit
    /\ Exam = NoExam
    /\ rng = Unseeded
    /\ stream = << >>
    /\ fs = << >>
    /\ loop = NoLoop
    /\ log = << >>
    /\ runNo = 1
    /\ prev = NoPrev
    /\ sol = NoSol
    /\ new_cell = NoCell
    /\ generated = 0

RECURSIVE ParseFrom(_, _, _, _)
\* The loop of parse_notebook from cell i on.
ParseFrom(p, E, cs, i) ==
    IF i > Len(cs) THEN Ok(p, E)
    ELSE LET r == ParseIteration(p, E, cs[i])
         IN  IF r.err # "" THEN r ELSE ParseFrom(r.p, r.E, cs, i + 1)

parse_notebook(E, cs) == ParseFrom(ParserInit, E, cs, 1)

\* main up to the call of parse_notebook, which may raise.
Parse ==
    /\ pc = "main"
    /\ LET r == parse_notebook(Exam, nb)
       IN  /\ parser' = r.p
           /\ Exam' = r.E
           /\ err' = r.err
           /\ pc' = IF r.err = "" THEN "seed" ELSE "failed"
    /\ UNCHANGED <<args, nb, cell, ncells, block, rng, stream, fs, loop, log, runNo, prev, sol, new_cell, generated>>

\* args.seed or Exam.config.get("seed", 42)
SeedOf(a, config) ==
    IF a.seed # << >> /\ a.seed[1] # 0 THEN a.seed[1] ELSE Get(config, "seed", DefaultSeed)

\* A plausible slip: the generator is left as it is.
SeededKeepState(r, s) == r

\* np.random.seed(s)
Seeded(r, s) == [seed |-> s, n |-> 0]

Seed ==
    /\ pc = "seed"
    /\ rng' = Seeded(rng, SeedOf(args, Exam.config))
    /\ pc' = "autograder"
    /\ UNCHANGED <<err, args, nb, cell, ncells, block, parser, Exam, stream, fs, loop, log, runNo, prev, sol, new_cell, generated>>

---------------------------------------------------------------------------
(* The files under args.result.  fs maps a path <<directory, subdirectory, *)
(* name>> to what was last written there.  A notebook is recorded by the   *)
(* questions and versions its content was taken from, a test file by the   *)
(* name and points passed to gen_test_cell: both are functions of those    *)
(* and of the parsed master.                                               *)

WriteFile(f, path, content) ==
    [q \in DOMAIN f \cup {path} |-> IF q = path THEN content ELSE f[q]]

Dir == [kind |-> "dir", data |-> << >>]

\* os.makedirs(output_dir, exist_ok=True)
makedirs(f, dir) == WriteFile(f, <<dir, "", "">>, Dir)

\* os.makedirs(output_dir / "tests", exist_ok=True)
makedirs_tests(f, dir) == WriteFile(makedirs(f, dir), <<dir, "tests", "">>, Dir)

gen_otter_file(f, dir) ==
    WriteFile(f, <<dir, "", "exam.otter">>, [kind |-> "otter", data |-> <<nb_name>>])

RECURSIVE SourceText(_)
\* get_hash's string: the joined sources of the cells, one after another
SourceText(cs) ==
    IF Len(cs) = 0 THEN "" ELSE JoinLines(get_source(cs[1])) \o SourceText(Tail(cs))

\* The digest taken of the cells get_cells renders, once the version is parsed.
get_hashOfRendered(v) ==
    IF v.cells_without_solutions = << >> THEN SourceText(v.original_cells)
    ELSE SourceText(v.cells_without_solutions[1])

\* The SHA-256 digest of the text, identified with the text it digests.
get_hash(v) == SourceText(v.original_cells)

\* A plausible slip: the check is given the file's name.
CheckCallOfFile(name) == "grader.check(\"" \o name \o ".py\")"

\* 'grader.check("{}")'.format(name)
CheckCall(name) == "grader.check(\"" \o name \o "\")"

\* gen_test_cell: [f, cell], the files after write_test(tests_dir / (name +
\* ".py"), test) and the code cell that runs the check (Otter format).
gen_test_cell(f, dir, name, points, tests) ==
    [f    |-> WriteFile(f, <<dir, "tests", name \o ".py">>,
                        [kind |-> "test",
                         data |-> [name |-> name, points |-> points,
                                   suites |-> <<gen_suite(tests)>>]]),
     cell |-> new_code_cell(<<CheckCall(name)>>)]

nbformat_write(f, dir, content) ==
    WriteFile(f, <<dir, "", nb_name>>, [kind |-> "notebook", data |-> content])

\* gen_init_cell(None), Otter format
gen_init_cell ==
    new_code_cell(<<"# Initialize Otter", "import otter", "grader = otter.Notebook()">>)

gen_check_all_cell ==
    <<new_markdown_cell(<<"To double-check your work, the cell below will rerun all of the autograder tests.">>),
      new_code_cell(<<"grader.check_all()">>)>>

\* gen_export_cells('', pdf=True, filtering=True), Otter format
gen_export_cells ==
    <<new_markdown_cell(<<"## Submission">>),
      new_code_cell(<<"# Save your notebook first, then run this cell to export your submission.",
                      "grader.export()">>),
      new_markdown_cell(<<" ">>)>>

gen_question_header_cell(question_number) ==
    new_markdown_cell(<<"### Question " \o ToString(question_number)>>)

gen_version_header_cell(version_number) ==
    new_markdown_cell(<<"#### Version " \o ToString(version_number)>>)

\* The init cell, if configured, and the introduction.
Opening(E) ==
    (IF Get(E.config, "init_cell", TRUE) THEN <<gen_init_cell>> ELSE << >>) \o E.introduction

\* The export cells, if configured (export_cell is a Boolean in this model).
ExportCells(E) ==
    IF Get(E.config, "export_cell", TRUE) THEN gen_export_cells ELSE << >>

---------------------------------------------------------------------------
(* create_and_write_autograder_exam.  Its loops carry r = [f, cells,       *)
(* questions, err]: the files and the notebook's cells so far, the         *)
(* questions (get_cells parses their versions), and the error raised.      *)

\* A plausible slip: the autograder's tests depend on public_tests too.
AutograderTestsIfPublic(question) ==
    ~question.manual /\ Get(Exam.config, "public_tests", FALSE)

\* if not question.manual
AutograderTests(question) == ~question.manual

RECURSIVE AutograderVersions(_, _, _, _)
\* The loop over the versions of question qi (0-based) from version vj on.
AutograderVersions(r, dir, qi, vj) ==
    LET question == r.questions[qi + 1]
    IN  IF vj >= Len(question.versions) THEN r
        ELSE Let(get_cells(question.versions[vj + 1], TRUE), LAMBDA g :
             LET qs == [r.questions EXCEPT ![qi + 1].versions[vj + 1] = g.version]
                 cs == Append(r.cells, gen_version_header_cell(vj + 1)) \o g.cells
                 t  == gen_test_cell(r.f, dir, get_hash(g.version), question.points,
                                     g.version.tests)
             IN  IF g.err # "" THEN [r EXCEPT !.questions = qs, !.err = g.err]
                 ELSE Let([f         |-> IF AutograderTests(question) THEN t.f ELSE r.f,
                           cells     |-> IF AutograderTests(question) THEN Append(cs, t.cell) ELSE cs,
                           questions |-> qs,
                           err       |-> ""],
                          LAMBDA s : AutograderVersions(s, dir, qi, vj + 1)))

RECURSIVE AutograderQuestions(_, _, _)
\* The loop over Exam.questions from question qi on.
AutograderQuestions(r, dir, qi) ==
    IF qi >= Len(r.questions) THEN r
    ELSE Let([r EXCEPT !.cells = Append(@, gen_question_header_cell(qi + 1))], LAMBDA s :
             Let(AutograderVersions(s, dir, qi, 0), LAMBDA h :
                 IF h.err # "" THEN h ELSE AutograderQuestions(h, dir, qi + 1)))

\* [f, E, err]: the files and Exam after the call, and the error it raised
create_and_write_autograder_exam(f, E, dir) ==
    Let([f |-> gen_otter_file(makedirs_tests(f, dir), dir), cells |-> Opening(E),
         questions |-> E.questions, err |-> ""], LAMBDA r0 :
    Let(AutograderQuestions(r0, dir, 0), LAMBDA r :
        LET cs == r.cells \o E.conclusion
                    \o (IF Get(E.config, "check_all_cell", TRUE) THEN gen_check_all_cell ELSE << >>)
                    \o ExportCells(E)
        IN  [f   |-> IF r.err # "" THEN r.f ELSE nbformat_write(r.f, dir, cs),
             E   |-> [E EXCEPT !.questions = r.questions],
             err |-> r.err]))

\* The autograder notebook and its tests are written.
Autograder ==
    /\ pc = "autograder"
    /\ \E r \in {create_and_write_autograder_exam(fs, Exam, "autograder")} :
           /\ r.err = ""
           /\ fs' = r.f
           /\ Exam' = r.E
    /\ loop' = [i |-> 0, question_idx |-> << >>, j |-> 0, student |-> << >>]
    /\ pc' = "loop"
    /\ UNCHANGED <<err, args, nb, cell, ncells, block, parser, rng, stream, log, runNo, prev, sol, new_cell, generated>>

\* replace_solutions raises AssertionError while a version is parsed.
AutograderRaise ==
    /\ pc = "autograder"
    /\ \E r \in {create_and_write_autograder_exam(fs, Exam, "autograder")} :
           /\ r.err # ""
           /\ fs' = r.f
           /\ Exam' = r.E
           /\ err' = r.err
    /\ pc' = "failed"
    /\ UNCHANGED <<args, nb, cell, ncells, block, parser, rng, stream, loop, log, runNo, prev, sol, new_cell, generated>>

---------------------------------------------------------------------------
(* np.random.  The generator's n-th output after seed(s) is a function of  *)
(* s, n and the call made; stream holds the outputs revealed so far.       *)

Min(a, b) == IF a < b THEN a ELSE b

\* A plausible slip: the indices are sampled with replacement.
ShufflesWithRepeats(xs) == [1..Len(xs) -> {xs[i] : i \in 1..Len(xs)}]

\* The orders np.random.shuffle can leave the list in.
Shuffles(xs) ==
    {p \in [1..Len(xs) -> {xs[i] : i \in 1..Len(xs)}] :
        \A i, j \in 1..Len(xs) : i # j => p[i] # p[j]}

RngKey(r) == <<r.seed, r.n + 1>>

\* res is what the generator in state r answers to the call.
Generates(r, call, res) ==
    (RngKey(r) \in DOMAIN stream /\ stream[RngKey(r)].call = call)
        => stream[RngKey(r)].res = res

Revealed(r, call, res) == (RngKey(r) :> [call |-> call, res |-> res]) @@ stream

Advanced(r) == [r EXCEPT !.n = @ + 1]

---------------------------------------------------------------------------
(* Question.choose_version.                                                *)

\* A plausible slip: unused_versions is repopulated at every call.
PoolAlwaysFull(question) == RangeList(Len(question.versions))

\* A plausible slip: unused_versions is repopulated one draw early.
PoolRefillsEarly(question) ==
    IF Len(question.unused_versions) <= 1 THEN RangeList(Len(question.versions))
    ELSE question.unused_versions

\* The list the index is drawn from: unused_versions, repopulated if empty.
Pool(question) ==
    IF Len(question.unused_versions) = 0 THEN RangeList(Len(question.versions))
    ELSE question.unused_versions

\* A plausible slip: the drawn index stays in the list.
RemoveNothing(xs, x) == xs

\* list.remove(x): xs without the first occurrence of x
Remove(xs, x) ==
    LET k == CHOOSE i \in 1..Len(xs) : xs[i] = x /\ \A j \in 1..(i - 1) : xs[j] # x
    IN  SubSeq(xs, 1, k - 1) \o SubSeq(xs, k + 1, Len(xs))

\* A plausible slip: the drawn index is not removed, nor the list refilled.
choose_versionKeepsList(question, idx) == question

\* The question after choose_version has drawn idx.
choose_version(question, idx) ==
    [question EXCEPT !.unused_versions = Remove(Pool(question), idx)]

---------------------------------------------------------------------------
(* remove_hidden_tests.                                                    *)

RECURSIVE PopHiddenOnce(_, _)
\* A plausible slip: the loop ends at the first case it pops.
PopHiddenOnce(cases, i) ==
    IF i = 0 THEN cases
    ELSE IF cases[i].hidden THEN SubSeq(cases, 1, i - 1) \o SubSeq(cases, i + 1, Len(cases))
    ELSE PopHiddenOnce(cases, i - 1)

RECURSIVE PopHidden(_, _)
\* for i, case in list(enumerate(suite['cases']))[::-1]: from the i-th case
\* (1-based) down to the first, a hidden case is popped.
PopHidden(cases, i) ==
    IF i = 0 THEN cases
    ELSE IF cases[i].hidden
    THEN PopHidden(SubSeq(cases, 1, i - 1) \o SubSeq(cases, i + 1, Len(cases)), i - 1)
    ELSE PopHidden(cases, i - 1)

\* The test of a file with the hidden cases of every suite popped.
WithoutHidden(test) ==
    [test EXCEPT !.suites = [k \in 1..Len(test.suites) |->
        [test.suites[k] EXCEPT !.cases = PopHidden(@, Len(@))]]]

\* A plausible slip: the test files of every tests directory under the
\* result directory.
TestFilesOfEveryDir(f, dir) ==
    {path \in DOMAIN f : path[2] = "tests" /\ f[path].kind = "test"}

\* The files test_dir.iterdir() gives that are neither __init__.py nor
\* without the suffix .py: the test files of the directory.
TestFiles(f, dir) ==
    {path \in DOMAIN f : path[1] = dir /\ path[2] = "tests" /\ f[path].kind = "test"}

\* A plausible slip: the test files are left as they are.
remove_hidden_testsKeepsAll(f, dir) == f

remove_hidden_tests(f, dir) ==
    [path \in DOMAIN f |->
        IF path \in TestFiles(f, dir) THEN [f[path] EXCEPT !.data = WithoutHidden(@)]
        ELSE f[path]]

---------------------------------------------------------------------------
(* main's loop and create_and_write_exam_instance.                         *)

ExamDir(i) == "exam_" \o ToString(i)

public_tests == Get(Exam.config, "public_tests", FALSE)

HasKeys == "num_students" \in DOMAIN Exam.config /\ "num_questions" \in DOMAIN Exam.config

genVars == <<args, nb, cell, ncells, block, parser, runNo, prev, sol, new_cell>>

\* Exam.config["num_students"] or Exam.config["num_questions"] raises KeyError.
ConfigKeyError ==
    /\ pc = "loop"
    /\ \/ "num_students" \notin DOMAIN Exam.config
       \/ /\ "num_students" \in DOMAIN Exam.config
          /\ loop.i < Exam.config["num_students"]
          /\ "num_questions" \notin DOMAIN Exam.config
    /\ pc' = "failed"
    /\ err' = "KeyError"
    /\ UNCHANGED <<Exam, rng, stream, fs, loop, log, genVars, generated>>

\* create_and_write_exam_instance up to the loop over the questions.
InstanceBegin(perm) ==
    /\ pc = "loop"
    /\ HasKeys
    /\ loop.i < Exam.config["num_students"]
    /\ LET dir  == ExamDir(loop.i)
           idx  == RangeList(Len(Exam.questions))
           call == <<"shuffle", idx>>
       IN  /\ perm \in Shuffles(idx)
           /\ Generates(rng, call, perm)
           /\ stream' = Revealed(rng, call, perm)
           /\ rng' = Advanced(rng)
           /\ fs' = gen_otter_file(IF public_tests THEN makedirs_tests(fs, dir)
                                   ELSE makedirs(fs, dir), dir)
           /\ loop' = [loop EXCEPT
                 !.question_idx = SubSeq(perm, 1, Min(Exam.config["num_questions"], Len(perm))),
                 !.j = 0, !.student = Opening(Exam)]
    /\ pc' = "question"
    /\ UNCHANGED <<err, Exam, log, genVars, generated>>

\* A plausible slip: a manual question gets its test cell too.
InstanceTestsManualToo(question) == public_tests

\* if not question.manual and Exam.config.get("public_tests", False)
InstanceTests(question) == ~question.manual /\ public_tests

\* One iteration of the loop over the questions: a version is drawn.
InstanceQuestion(idx) ==
    /\ pc = "question"
    /\ loop.j < Exam.config["num_questions"]
    /\ loop.j < Len(loop.question_idx)
    /\ LET qi       == loop.question_idx[loop.j + 1]
           question == Exam.questions[qi + 1]
           call     == <<"choice", Pool(question)>>
           g        == get_cells(question.versions[idx + 1], FALSE)
           t        == gen_test_cell(fs, ExamDir(loop.i), get_hash(g.version), question.points,
                                     g.version.tests)
           cs       == Append(loop.student, gen_question_header_cell(loop.j + 1)) \o g.cells
       IN  /\ \E k \in 1..Len(Pool(question)) : Pool(question)[k] = idx
           /\ Generates(rng, call, <<idx>>)
           /\ stream' = Revealed(rng, call, <<idx>>)
           /\ rng' = Advanced(rng)
           /\ Exam' = [Exam EXCEPT !.questions[qi + 1] =
                          [choose_version(question, idx) EXCEPT !.versions[idx + 1] = g.version]]
           /\ log' = Append(log, [i |-> loop.i, q |-> qi, v |-> idx,
                                   u |-> Len(question.unused_versions)])
           /\ loop' = [loop EXCEPT !.j = @ + 1,
                                   !.student = IF InstanceTests(question) THEN Append(cs, t.cell)
                                               ELSE cs]
           /\ fs' = IF InstanceTests(question) THEN t.f ELSE fs
    /\ UNCHANGED <<pc, err, genVars, generated>>

\* question_idx[i] is out of range, or np.random.choice is given no index.
InstanceQuestionError ==
    /\ pc = "question"
    /\ loop.j < Exam.config["num_questions"]
    /\ \/ /\ loop.j >= Len(loop.question_idx)
          /\ err' = "IndexError"
       \/ /\ loop.j < Len(loop.question_idx)
          /\ Len(Exam.questions[loop.question_idx[loop.j + 1] + 1].versions) = 0
          /\ err' = "ValueError"
    /\ pc' = "failed"
    /\ UNCHANGED <<Exam, rng, stream, fs, loop, log, genVars, generated>>

\* A plausible slip: the outputs are left in the cells.
WithoutOutputsKept(cells) == cells

\* remove_output(student)
WithoutOutputs(cells) == remove_output(cells)

\* The same, were the rendered cells the raw cells themselves, not copies.
OutputsRemovedInPlaceNoCopy(E, i) ==
    [E EXCEPT
        !.introduction = WithoutOutputs(@),
        !.conclusion = WithoutOutputs(@),
        !.questions = [q \in 1..Len(E.questions) |->
            [E.questions[q] EXCEPT !.versions = [v \in 1..Len(E.questions[q].versions) |->
                IF \E k \in 1..Len(log) : log[k] = [log[k] EXCEPT !.i = i, !.q = q - 1, !.v = v - 1]
                THEN [E.questions[q].versions[v] EXCEPT
                         !.cells_without_solutions[1] = WithoutOutputs(@),
                         !.cells_with_solutions[1] = WithoutOutputs(@),
                         !.original_cells = WithoutOutputs(@)]
                ELSE E.questions[q].versions[v]]]]]

\* remove_output clears the outputs of the cell objects in student.cells:
\* they are the objects of Exam.introduction and Exam.conclusion and of the
\* cells_without_solutions of the versions drawn for instance i.
OutputsRemovedInPlace(E, i) ==
    [E EXCEPT
        !.introduction = WithoutOutputs(@),
        !.conclusion = WithoutOutputs(@),
        !.questions = [q \in 1..Len(E.questions) |->
            [E.questions[q] EXCEPT !.versions = [v \in 1..Len(E.questions[q].versions) |->
                IF \E k \in 1..Len(log) : log[k] = [log[k] EXCEPT !.i = i, !.q = q - 1, !.v = v - 1]
                THEN [E.questions[q].versions[v] EXCEPT
                         !.cells_without_solutions[1] = WithoutOutputs(@)]
                ELSE E.questions[q].versions[v]]]]]

\* The conclusion, the check-all cells and the export cells of an instance.
InstanceClosing(E) ==
    E.conclusion
        \o (IF Get(E.config, "check_all_cell", TRUE) /\ Get(E.config, "public_tests", FALSE)
            THEN gen_check_all_cell ELSE << >>)
        \o ExportCells(E)

\* The rest of create_and_write_exam_instance: the hidden tests are removed,
\* the notebook is completed, stripped of outputs and written.
InstanceEnd ==
    /\ pc = "question"
    /\ loop.j >= Exam.config["num_questions"]
    /\ LET dir == ExamDir(loop.i)
           f1  == IF public_tests THEN remove_hidden_tests(fs, dir) ELSE fs
           cs  == loop.student \o InstanceClosing(Exam)
       IN  /\ fs' = nbformat_write(f1, dir, WithoutOutputs(cs))
           /\ loop' = [loop EXCEPT !.i = @ + 1, !.student = WithoutOutputs(cs)]
           /\ Exam' = OutputsRemovedInPlace(Exam, loop.i)
    /\ pc' = "loop"
    /\ UNCHANGED <<err, rng, stream, log, genVars, generated>>

\* The loop is over: main calls generate, or does not, and returns.
\* The tail of main: whether generate(args.result, ...) is called. An
\* empty mapping is false; the call stands under "if not args.quiet".
RunsGenerate(config, a) ==
    /\ Get(config, "generate", NoYaml) # NoYaml
    /\ ~a.quiet

Return ==
    /\ pc = "loop"
    /\ "num_students" \in DOMAIN Exam.config
    /\ loop.i >= Exam.config["num_students"]
    /\ generated' = IF RunsGenerate(Exam.config, args) THEN generated + 1 ELSE generated
    /\ pc' = "done"
    /\ UNCHANGED <<err, Exam, rng, stream, fs, loop, log, genVars>>

Next ==
    \/ Parse
    \/ Seed
    \/ Autograder
    \/ AutograderRaise
    \/ ConfigKeyError
    \/ \E perm \in Shuffles(RangeList(Len(Exam.questions))) : InstanceBegin(perm)
    \/ \E idx \in 0..(MaxVersions - 1) : InstanceQuestion(idx)
    \/ InstanceQuestionError
    \/ InstanceEnd
    \/ Return

Spec == Init /\ [][Next]_vars

---------------------------------------------------------------------------
(* SpecRuns: main is run a second time in the same process, on the same    *)
(* master with the same arguments, after the first run's output directory  *)
(* has been removed.  Exam's class attributes and np.random's state are    *)
(* the process's and stay.                                                 *)

InitRuns ==
    /\ Init
    /\ Get(nb[1].yaml, "num_students", 0) <= MaxRunStudents

Rerun ==
    /\ pc = "done"
    /\ runNo = 1
    /\ runNo' = 2
    /\ prev' = [log |-> log, fs |-> fs]
    /\ pc' = "main"
    /\ fs' = << >>
    /\ log' = << >>
    /\ loop' = NoLoop
    /\ parser' = ParserInit
    /\ generated' = 0
    /\ UNCHANGED <<err, args, nb, cell, ncells, block, Exam, rng, stream, sol, new_cell>>

NextRuns == Next \/ Rerun

SpecRuns == InitRuns /\ [][NextRuns]_vars

---------------------------------------------------------------------------
(* SpecSolutions: replace_solutions on an arbitrary list of lines, one     *)
(* line of SolutionLines per iteration of its loop.                        *)

\* Longest list of lines SpecSolutions feeds to replace_solutions.
MaxLines == 4

SolutionLines ==
    {"y = 2", "x = 1 # SOLUTION", "f(x) # SOLUTION", "z = 3 # SOLUTION NO PROMPT",
     "# BEGIN SOLUTION", "    # BEGIN SOLUTION", "# BEGIN SOLUTION NO PROMPT", "# END SOLUTION"}

InitSolutions ==
    /\ pc = "replacing"
    /\ err = ""
    /\ sol = NoSol
    /\ new_cell = NoCell
    /\ generated = 0
    /\ cell = NoCell
    /\ ncells = 0
    /\ block = << >>
    /\ parser = ParserInit
    /\ Exam = NoExam
    /\ args = NoArgs
    /\ nb = << >>
    /\ rng = NoRng
    /\ stream = << >>
    /\ fs = << >>
    /\ loop = NoLoop
    /\ log = << >>
    /\ runNo = 1
    /\ prev = NoPrev

\* The variables replace_solutions does not use.
solVars == <<args, nb, cell, ncells, block, parser, Exam, rng, stream, fs, loop, log, runNo, prev, new_cell, generated>>

\* An iteration of the loop that raises nothing.
ReplaceAccept(line) ==
    /\ pc = "replacing"
    /\ Len(sol.lines) < MaxLines
    /\ ReplaceLine(sol.st, line).err = ""
    /\ sol' = [lines |-> Append(sol.lines, line), st |-> ReplaceLine(sol.st, line)]
    /\ UNCHANGED <<pc, err, solVars>>

\* An iteration whose assert fails.
ReplaceRaise(line) ==
    /\ pc = "replacing"
    /\ Len(sol.lines) < MaxLines
    /\ ReplaceLine(sol.st, line).err # ""
    /\ sol' = [lines |-> Append(sol.lines, line), st |-> ReplaceLine(sol.st, line)]
    /\ err' = ReplaceLine(sol.st, line).err
    /\ pc' = "failed"
    /\ UNCHANGED solVars

\* The lines are exhausted and the last assert holds: stripped is returned.
ReplaceReturn ==
    /\ pc = "replacing"
    /\ ReplaceEnd(sol.st).err = ""
    /\ pc' = "replaced"
    /\ UNCHANGED <<err, sol, solVars>>

\* The lines are exhausted inside a solution block: the last assert fails.
ReplaceReturnRaise ==
    /\ pc = "replacing"
    /\ ReplaceEnd(sol.st).err # ""
    /\ sol' = [sol EXCEPT !.st = ReplaceEnd(sol.st)]
    /\ err' = ReplaceEnd(sol.st).err
    /\ pc' = "failed"
    /\ UNCHANGED solVars

NextSolutions ==
    \/ \E line \in SolutionLines : ReplaceAccept(line)
    \/ \E line \in SolutionLines : ReplaceRaise(line)
    \/ ReplaceReturn
    \/ ReplaceReturnRaise

SpecSolutions == InitSolutions /\ [][NextSolutions]_vars

---------------------------------------------------------------------------
(* SpecCells: replace_cell_solutions on an arbitrary cell, of any type,    *)
(* of up to MaxCellLines lines of CellLines.                               *)

\* Longest source of a cell SpecCells feeds to replace_cell_solutions.
MaxCellLines == 2

CellLines ==
    {"", "y = 2", "Explain.", "x = 1 # SOLUTION", "    x = 1 # SOLUTION", "f(x) # SOLUTION",
     "d[0] = 1 # SOLUTION", "print('#') # SOLUTION", "z = 3 # SOLUTION NO PROMPT",
     "# BEGIN SOLUTION", "# END SOLUTION", "# BEGIN PROMPT", "# END PROMPT", "**SOLUTION:**"}

CellSources == UNION {[1..n -> CellLines] : n \in 1..MaxCellLines}

StripCells ==
    {CodeCell(ls, outs) : ls \in CellSources, outs \in {<< >>, <<[text |-> "1"]>>}}
    \cup {MarkdownCell(ls) : ls \in CellSources}
    \cup {[cell_type |-> "raw", source |-> ls, yaml |-> NoYaml] : ls \in CellSources}

InitCells ==
    /\ pc = "cell"
    /\ err = ""
    /\ cell \in StripCells
    /\ new_cell = NoCell
    /\ generated = 0
    /\ sol = NoSol
    /\ ncells = 0
    /\ block = << >>
    /\ parser = ParserInit
    /\ Exam = NoExam
    /\ args = NoArgs
    /\ nb = << >>
    /\ rng = NoRng
    /\ stream = << >>
    /\ fs = << >>
    /\ loop = NoLoop
    /\ log = << >>
    /\ runNo = 1
    /\ prev = NoPrev

\* The variables replace_cell_solutions does not use.
cellVars == <<args, nb, cell, ncells, block, parser, Exam, rng, stream, fs, loop, log, runNo, prev, sol, generated>>

\* replace_cell_solutions returns the sanitized cell.
ReplaceCell ==
    /\ pc = "cell"
    /\ \E r \in {replace_cell_solutions(cell)} :
           /\ r.err = ""
           /\ new_cell' = r.cell
    /\ pc' = "stripped"
    /\ UNCHANGED <<err, cellVars>>

\* replace_solutions raises on the cell's lines.
ReplaceCellRaise ==
    /\ pc = "cell"
    /\ \E r \in {replace_cell_solutions(cell)} :
           /\ r.err # ""
           /\ err' = r.err
    /\ pc' = "failed"
    /\ UNCHANGED <<new_cell, cellVars>>

NextCells == ReplaceCell \/ ReplaceCellRaise

SpecCells == InitCells /\ [][NextCells]_vars

---------------------------------------------------------------------------
(* Claims about choose_version and main, checked under Spec.               *)

\* The draws made for question q (0-based), in order.
QLog(q) == SelectSeq(log, LAMBDA e : e.q = q)

QuestionIds == 0..(Len(Exam.questions) - 1)

NumVersions(q) == Len(Exam.questions[q + 1].versions)

\* The versions returned by the draws numbered from .. to of L.
Drawn(L, from, to) == {L[c].v : c \in from..to}

\* C1: the draws numbered n*k+1 .. (n+1)*k of a question with k versions are
\* all different, so that each of the k versions is returned exactly once
\* by them: no two draws of one such group return the same version.
C1_EachCycleDrawsEveryVersionOnce ==
    \A q \in QuestionIds :
        LET k == NumVersions(q)
            L == QLog(q)
        IN  /\ \A a \in 1..Len(L) : L[a].v \in 0..(k - 1)
            /\ \A a, b \in 1..Len(L) :
                  (a < b /\ (a - 1) \div k = (b - 1) \div k) => L[a].v # L[b].v
            /\ \A n \in 0..Len(L) :
                  (n + 1) * k <= Len(L) => Drawn(L, n * k + 1, (n + 1) * k) = 0..(k - 1)

\* A question of two or more versions has been drawn from through two cycles.
C1_Witness ==
    \E q \in QuestionIds : NumVersions(q) >= 2 /\ Len(QLog(q)) >= 2 * NumVersions(q)

\* C2 as stated: any k consecutive draws, wherever they start, return k
\* different versions.
C2_AnyWindowIsPermutation ==
    \A q \in QuestionIds :
        LET k == NumVersions(q)
            L == QLog(q)
        IN  \A s \in 0..Len(L) :
                s + k <= Len(L) => Cardinality(Drawn(L, s + 1, s + k)) = k

\* The draw was made with unused_versions empty or full: a cycle starts.
StartsCycle(e, k) == e.u = 0 \/ e.u = k

\* C2, amended: k consecutive draws that start with unused_versions full or
\* empty return a permutation of all k versions; k consecutive draws that
\* start elsewhere may repeat a version, and return none more than twice.
C2_WindowFromCycleStartIsPermutation ==
    \A q \in QuestionIds :
        LET k == NumVersions(q)
            L == QLog(q)
        IN  \A s \in 0..Len(L) :
                s + k <= Len(L) =>
                    /\ (s < Len(L) /\ StartsCycle(L[s + 1], k))
                           => Drawn(L, s + 1, s + k) = 0..(k - 1)
                    /\ \A v \in 0..(k - 1) :
                           Cardinality({c \in (s + 1)..(s + k) : L[c].v = v}) <= 2

\* Three draws of a question of three versions that start in mid-cycle
\* return one version twice.
C2_Witness ==
    \E q \in QuestionIds :
        /\ NumVersions(q) = 3
        /\ Len(QLog(q)) = 4
        /\ QLog(q)[3].v = QLog(q)[4].v

\* The draw at which the cycle of draw a began.
CycleStart(L, a, k) ==
    CHOOSE c \in 1..a : StartsCycle(L[c], k) /\ \A d \in (c + 1)..a : ~StartsCycle(L[d], k)

\* C3: unused_versions lives on from one exam instance to the next: it
\* always holds the versions not yet drawn in the current cycle, whichever
\* instances the draws were made for, and when a version drawn for a
\* question in one instance is drawn for it again in a later instance, every
\* other version of the question has been drawn since the cycle of the
\* earlier draw began.
C3_CyclePersistsAcrossInstances ==
    \A q \in QuestionIds :
        LET k == NumVersions(q)
            L == QLog(q)
            unused == Exam.questions[q + 1].unused_versions
        IN  /\ {unused[c] : c \in 1..Len(unused)} =
                  IF Len(L) = 0 THEN 0..(k - 1)
                  ELSE (0..(k - 1)) \ Drawn(L, CycleStart(L, Len(L), k), Len(L))
            /\ \A a, b \in 1..Len(L) :
                  (a < b /\ L[a].v = L[b].v) =>
                      /\ L[a].i < L[b].i
                      /\ Drawn(L, CycleStart(L, a, k), b - 1) = 0..(k - 1)

\* A version of a question of three versions was drawn in one instance and
\* again in a later one.
C3_Witness ==
    \E q \in QuestionIds :
        /\ NumVersions(q) = 3
        /\ \E a, b \in 1..Len(QLog(q)) :
              a < b /\ QLog(q)[a].v = QLog(q)[b].v /\ QLog(q)[a].i < QLog(q)[b].i

\* C9: when main ends with the KeyError of a missing num_students or
\* num_questions, nothing has been written.
C9_NothingWrittenBeforeKeyError ==
    (pc = "failed" /\ err = "KeyError") => DOMAIN fs = {}

---------------------------------------------------------------------------
(* A claim about two runs of main, checked under SpecRuns.                 *)

\* C10: a second run of main on the same master with the same seed makes
\* the selections and draws of the first, in the same order, and writes the
\* same files with the same content (in a directory whose notebook is
\* written, every file is as the first run left it); it ends as the first did.
C10_SameSeedSameBatch ==
    runNo = 2 =>
        /\ Len(log) <= Len(prev.log)
        /\ \A a \in 1..Len(log) : log[a] = prev.log[a]
        /\ \A path \in DOMAIN fs :
               /\ path \in DOMAIN prev.fs
               /\ <<path[1], "", nb_name>> \in DOMAIN fs => fs[path] = prev.fs[path]
        /\ pc # "failed"
        /\ pc = "done" => (log = prev.log /\ fs = prev.fs)

\* A second run has ended after draws among two or more versions.
C10_Witness ==
    /\ runNo = 2
    /\ pc = "done"
    /\ \E a \in 1..Len(log) : log[a].u >= 2
    /\ Len(Exam.questions) = 2

---------------------------------------------------------------------------
(* Claims about parse_notebook, checked under SpecParse.                   *)

\* This step is an iteration of parse_notebook's loop.
ParseIterationStep == pc = "parsing" /\ ncells' = ncells + 1

StrayEndMessage(d) ==
    CASE d = "introduction" -> "END INTRODUCTION found outside introduction block"
      [] d = "question"     -> "END QUESTION found outside question block"
      [] d = "version"      -> "END VERSION found outside version block"
      [] d = "conclusion"   -> "END CONCLUSION found outside conclusion block"

\* C4: an END INTRODUCTION, END QUESTION, END VERSION or END CONCLUSION cell
\* met while the block of that kind is not open ends the parse with the
\* error for that kind.
C4_StrayEndFails ==
    [][\A d \in EndKinds :
          (ParseIterationStep /\ is_delim_cell(cell', d, FALSE) /\ ~IsOpen(parser, d))
              => (pc' = "failed" /\ err' = StrayEndMessage(d))]_vars

\* An END VERSION cell met with no version block open has ended the parse.
C4_Witness ==
    /\ pc = "failed"
    /\ is_delim_cell(cell, "version", FALSE)
    /\ ~parser.in_version
    /\ parser.in_question

IsDelimiterCell(c) == IsBeginCell(c) \/ IsEndCell(c)

\* C5: a cell that is no delimiter, met while no block is open, ends the
\* parse with an error, and nothing of it is stored: the parser's buffers
\* and the Exam are as they were.
C5_CellOutsideBlockFails ==
    [][(ParseIterationStep /\ ~IsDelimiterCell(cell') /\ NoBlockOpen(parser))
          => (pc' = "failed" /\ err' = "Cell found outside a block"
              /\ parser' = parser /\ Exam' = Exam)]_vars

\* A content cell that follows a closed question block has ended the parse.
C5_Witness ==
    /\ pc = "failed"
    /\ ~IsDelimiterCell(cell)
    /\ NoBlockOpen(parser)
    /\ Len(parser.questions) = 1

\* C6: parse_notebook returns only when no block is open (a BEGIN with no
\* END is an error).
C6_UnclosedBlockFails == pc = "parsed" => NoBlockOpen(parser)

\* The cells of the block other than BEGIN EXAM cells, which are consumed as
\* the exam's config wherever they stand.
Buffered(cs) == SelectSeq(cs, LAMBDA c : ~is_delim_cell(c, "exam", TRUE))

\* A question block has just been closed, and it held no BEGIN VERSION.
ClosedWithoutVersions ==
    /\ pc = "parsing"
    /\ ncells > 0
    /\ is_delim_cell(cell, "question", FALSE)
    /\ \A i \in 1..Len(block) : ~is_delim_cell(block[i], "version", TRUE)

LastQuestion == parser.questions[Len(parser.questions)]

C8_NoQuestionWithoutVersions ==
    pc = "parsed" => \A i \in 1..Len(Exam.questions) : Len(Exam.questions[i].versions) >= 1


---------------------------------------------------------------------------
(* Claims about main's seeding and the files written, checked under Spec.  *)

\* The seed the caller asked for: args.seed if given, else the config's
\* "seed", else the default.
RequestedSeed ==
    IF args.seed # << >> THEN args.seed[1] ELSE Get(Exam.config, "seed", DefaultSeed)

\* C11: once main has seeded np.random, the seed in use is the explicit seed
\* argument whenever one is given (0 included), otherwise the config's
\* "seed", otherwise 42; and no draw is made before the seeding.
C11_SeedIsExplicitElseConfigElseDefault ==
    /\ pc \in {"autograder", "loop", "question", "done"} => rng.seed = RequestedSeed
    /\ pc \in {"main", "seed"} => rng = Unseeded /\ log = << >>


\* Instance i's notebook has been written.
Written(i) == <<ExamDir(i), "", nb_name>> \in DOMAIN fs

InstanceNb(i) == fs[<<ExamDir(i), "", nb_name>>].data

Instances == {i \in 0..(MaxStudents - 1) : Written(i)}

\* The draws made for instance i, in order.
ILog(i) == SelectSeq(log, LAMBDA e : e.i = i)

\* The version an entry of the log drew.
DrawnVersion(e) == Exam.questions[e.q + 1].versions[e.v + 1]

IsQuestionHeader(c) == \E n \in 1..Len(log) + 1 : c = gen_question_header_cell(n)

HeaderPos(cells, n) == CHOOSE p \in 1..Len(cells) : cells[p] = gen_question_header_cell(n)

\* The cells of instance i's notebook under its n-th question header, up to
\* the next header or to the closing cells.
QuestionBlock(i, n) ==
    LET cells == InstanceNb(i)
        last  == IF n < Len(ILog(i)) THEN HeaderPos(cells, n + 1) - 1
                 ELSE Len(cells) - Len(InstanceClosing(Exam))
    IN  SubSeq(cells, HeaderPos(cells, n) + 1, last)

\* The solution-free content of a version, as a written notebook holds it.
ContentCellsOf(version) == remove_output(version.cells_without_solutions[1])

IsCheckCell(c) == is_code_cell(c) /\ \E e \in {log[k] : k \in 1..Len(log)} :
                      get_source(c) = <<CheckCall(get_hash(DrawnVersion(e)))>>

EnoughQuestions ==
    /\ HasKeys
    /\ Exam.config["num_questions"] <= Len(Exam.questions)

\* C12: when num_questions is at most the number of parsed questions, every
\* written exam instance holds exactly num_questions questions, no question
\* twice, under headers numbered 1 .. num_questions in order, and under each
\* header the content of exactly one version: the one drawn for it.
C12_InstanceHasNumQuestionsDistinct ==
    EnoughQuestions =>
        \A i \in Instances :
            LET L == ILog(i)
                N == Exam.config["num_questions"]
            IN  /\ Len(L) = N
                /\ \A a, b \in 1..N : a # b => L[a].q # L[b].q
                /\ SelectSeq(InstanceNb(i), IsQuestionHeader)
                       = [n \in 1..N |-> gen_question_header_cell(n)]
                /\ \A n \in 1..N :
                       LET B  == QuestionBlock(i, n)
                           cw == ContentCellsOf(DrawnVersion(L[n]))
                       IN  /\ Len(B) >= Len(cw)
                           /\ SubSeq(B, 1, Len(cw)) = cw
                           /\ \A k \in (Len(cw) + 1)..Len(B) : k = Len(cw) + 1 /\ IsCheckCell(B[k])

\* An instance of two questions has been written.
C12_Witness ==
    /\ EnoughQuestions
    /\ Exam.config["num_questions"] = 2
    /\ \E i \in Instances : Len(ILog(i)) = 2 /\ i > 0


\* The block under header n of instance i holds the cell that runs the check
\* named by the hash of the version drawn.
HasCheckCell(i, n) ==
    LET B == QuestionBlock(i, n)
    IN  \E k \in 1..Len(B) :
            B[k] = new_code_cell(<<"grader.check(\"" \o get_hash(DrawnVersion(ILog(i)[n])) \o "\")">>)

\* Some cell of the block runs a check, whatever its name.
HasAnyCheckCell(i, n) ==
    LET B == QuestionBlock(i, n)
    IN  \E k \in 1..Len(B) : IsCheckCell(B[k])

\* Instance i's tests directory holds the test file named by the hash.
HasTestFile(i, version) == <<ExamDir(i), "tests", get_hash(version) \o ".py">> \in DOMAIN fs

\* C13: in a written exam instance, the test cell of a selected question is
\* emitted and the test file named by the hash of its drawn version is
\* written if and only if the question is not manual and public_tests is
\* enabled; otherwise neither is produced.
C13_TestsIffNotManualAndPublic ==
    \A i \in Instances : \A n \in 1..Len(ILog(i)) :
        LET e     == ILog(i)[n]
            wants == ~Exam.questions[e.q + 1].manual /\ Get(Exam.config, "public_tests", FALSE)
        IN  /\ wants => HasCheckCell(i, n) /\ HasTestFile(i, DrawnVersion(e))
            /\ ~wants => ~HasAnyCheckCell(i, n) /\ ~HasTestFile(i, DrawnVersion(e))

\* With public_tests enabled, a written instance holds a manual question and
\* one that is not.
C13_Witness ==
    \E i \in Instances : \E a, b \in 1..Len(ILog(i)) :
        /\ Get(Exam.config, "public_tests", FALSE)
        /\ Exam.questions[ILog(i)[a].q + 1].manual
        /\ ~Exam.questions[ILog(i)[b].q + 1].manual


\* The autograder notebook has been written.
AutograderWritten == <<"autograder", "", nb_name>> \in DOMAIN fs

AutograderNb == fs[<<"autograder", "", nb_name>>].data

\* The cells of a version that are not test cells, solutions included.
SolutionContent(version) == SelectSeq(version.original_cells, LAMBDA c : ~is_test_cell(c))

RECURSIVE VersionsInOrder(_, _)
\* Under each version header from the j-th on, the version's content.
VersionsInOrder(question, j) ==
    IF j > Len(question.versions) THEN << >>
    ELSE <<gen_version_header_cell(j)>> \o SolutionContent(question.versions[j])
         \o VersionsInOrder(question, j + 1)

RECURSIVE QuestionsInOrder(_)
\* Under each question header from the n-th on, the question's versions.
QuestionsInOrder(n) ==
    IF n > Len(Exam.questions) THEN << >>
    ELSE <<gen_question_header_cell(n)>> \o VersionsInOrder(Exam.questions[n], 1)
         \o QuestionsInOrder(n + 1)

IsAutograderCheckCell(c) ==
    /\ is_code_cell(c)
    /\ \E q \in 1..Len(Exam.questions) : \E v \in 1..Len(Exam.questions[q].versions) :
           get_source(c) = <<"grader.check(\"" \o get_hash(Exam.questions[q].versions[v]) \o "\")">>

\* The autograder notebook between its opening and its closing cells, the
\* cells that run a check left out.
AutograderBody ==
    LET closing == Len(Exam.conclusion) + Len(ExportCells(Exam))
                       + (IF Get(Exam.config, "check_all_cell", TRUE) THEN 2 ELSE 0)
    IN  SelectSeq(SubSeq(AutograderNb, Len(Opening(Exam)) + 1, Len(AutograderNb) - closing),
                  LAMBDA c : ~IsAutograderCheckCell(c))

\* C14: the autograder notebook holds every question in the order of
\* Exam.questions and under each question every version in order, each with
\* its cells with solutions; and writing it draws nothing from np.random.
C14_AutograderHasAllVersionsInOrder ==
    /\ AutograderWritten => AutograderBody = QuestionsInOrder(1)
    /\ (pc = "loop" /\ loop.i = 0) => (rng.n = 0 /\ stream = << >> /\ log = << >>)

\* The autograder notebook of two questions, the first of several versions.
C14_Witness ==
    /\ AutograderWritten
    /\ Len(Exam.questions) = 2
    /\ Len(Exam.questions[1].versions) = MaxVersions
    /\ pc = "loop"


\* The autograder's tests directory holds the test file of the version.
HasAutograderTest(version) ==
    /\ <<"autograder", "tests", get_hash(version) \o ".py">> \in DOMAIN fs
    /\ fs[<<"autograder", "tests", get_hash(version) \o ".py">>].data.name = get_hash(version)

\* C15 as stated: once the autograder notebook is written, its tests
\* directory holds a test file for every version of every question, whatever
\* public_tests is.
C15_EveryVersionHasAutograderTest ==
    AutograderWritten =>
        \A q \in 1..Len(Exam.questions) : \A v \in 1..Len(Exam.questions[q].versions) :
            HasAutograderTest(Exam.questions[q].versions[v])

\* C15, amended: once the autograder notebook is written, its tests directory
\* holds a test file for every version of every question that is not manual,
\* whatever public_tests is, and none for the versions of a manual question.
C15_EveryNonManualVersionHasAutograderTest ==
    AutograderWritten =>
        \A q \in 1..Len(Exam.questions) : \A v \in 1..Len(Exam.questions[q].versions) :
            HasAutograderTest(Exam.questions[q].versions[v]) <=> ~Exam.questions[q].manual

\* The autograder is written with public_tests disabled, for a question of
\* several versions that is not manual and for a manual question.
C15_Witness ==
    /\ AutograderWritten
    /\ ~Get(Exam.config, "public_tests", FALSE)
    /\ Len(Exam.questions) = 2
    /\ Len(Exam.questions[1].versions) > 1 /\ ~Exam.questions[1].manual
    /\ Exam.questions[2].manual


\* C16: every cell of every written exam instance that has outputs has none
\* left: the cells of the introduction, of the questions, of the conclusion
\* and the generated cells alike.
C16_InstanceCellsHaveNoOutputs ==
    \A i \in Instances : \A k \in 1..Len(InstanceNb(i)) :
        "outputs" \in DOMAIN InstanceNb(i)[k] => InstanceNb(i)[k].outputs = << >>

HasOutput(cells) ==
    \E k \in 1..Len(cells) : "outputs" \in DOMAIN cells[k] /\ cells[k].outputs # << >>

\* An instance is written from a master whose cells hold outputs (the
\* autograder notebook keeps them), those of a drawn version included.
C16_Witness ==
    /\ Instances # {}
    /\ AutograderWritten /\ HasOutput(AutograderNb)
    /\ \E k \in 1..Len(log) : HasOutput(DrawnVersion(log[k]).original_cells)


\* The test files of instance i's tests directory.
InstanceTestFiles(i) == {fs[path].data : path \in TestFiles(fs, ExamDir(i))}

NoHiddenCase(test) ==
    \A s \in 1..Len(test.suites) : \A c \in 1..Len(test.suites[s].cases) :
        ~test.suites[s].cases[c].hidden

\* The cases of the suite made from the version's tests that are not hidden.
PublicCases(version) == SelectSeq(gen_suite(version.tests).cases, LAMBDA c : ~c.hidden)

\* C17: with public_tests enabled, once an instance's notebook is written no
\* test file of its tests directory holds a hidden case, and the file of each
\* version drawn for it holds the version's cases that are not hidden, in
\* their order.
C17_NoHiddenCaseInWrittenInstance ==
    Get(Exam.config, "public_tests", FALSE) =>
        \A i \in Instances :
            /\ \A test \in InstanceTestFiles(i) : NoHiddenCase(test)
            /\ \A n \in 1..Len(ILog(i)) :
                   LET e == ILog(i)[n]
                   IN  ~Exam.questions[e.q + 1].manual =>
                           /\ HasTestFile(i, DrawnVersion(e))
                           /\ fs[<<ExamDir(i), "tests", get_hash(DrawnVersion(e)) \o ".py">>].data.suites
                                  = <<[gen_suite(DrawnVersion(e).tests) EXCEPT
                                          !.cases = PublicCases(DrawnVersion(e))]>>

\* An instance is written with the tests of a version that has hidden cases
\* before and after a case that is not hidden.
C17_Witness ==
    /\ Get(Exam.config, "public_tests", FALSE)
    /\ \E i \in Instances : \E n \in 1..Len(ILog(i)) :
           LET t == DrawnVersion(ILog(i)[n]).tests
           IN  /\ ~Exam.questions[ILog(i)[n].q + 1].manual
               /\ Len(t) = 3 /\ t[1].hidden /\ ~t[2].hidden /\ t[3].hidden


\* The directories that hold tests.
TestDirs == {path[1] : path \in {p \in DOMAIN fs : fs[p].kind = "test"}}

\* C18: remove_hidden_tests applied twice to a tests directory leaves the
\* files that applying it once leaves.
C18_RemoveHiddenTestsIdempotent ==
    \A dir \in TestDirs :
        remove_hidden_tests(remove_hidden_tests(fs, dir), dir) = remove_hidden_tests(fs, dir)

\* A tests directory holds a file with two hidden cases, which
\* remove_hidden_tests changes; and an instance has had its hidden cases
\* removed.
C18_Witness ==
    /\ \E dir \in TestDirs :
           /\ remove_hidden_tests(fs, dir) # fs
           /\ \E path \in TestFiles(fs, dir) :
                  Len(SelectSeq(fs[path].data.suites[1].cases, LAMBDA c : c.hidden)) >= 2
    /\ Get(Exam.config, "public_tests", FALSE) /\ Instances # {}


TestFileOf(i, version) == fs[<<ExamDir(i), "tests", get_hash(version) \o ".py">>]

\* C19: with public_tests enabled, when the same version of a question that
\* is not manual has been drawn for two written instances, both tests
\* directories hold the test file named by the version's hash, with the same
\* content, and the check cell of each notebook names that hash.
C19_SameVersionSameArtifact ==
    Get(Exam.config, "public_tests", FALSE) =>
        \A i1, i2 \in Instances : \A n1 \in 1..Len(ILog(i1)) : \A n2 \in 1..Len(ILog(i2)) :
            LET e1 == ILog(i1)[n1]
                e2 == ILog(i2)[n2]
            IN  (i1 # i2 /\ e1.q = e2.q /\ e1.v = e2.v /\ ~Exam.questions[e1.q + 1].manual) =>
                    /\ HasTestFile(i1, DrawnVersion(e1)) /\ HasTestFile(i2, DrawnVersion(e1))
                    /\ TestFileOf(i1, DrawnVersion(e1)) = TestFileOf(i2, DrawnVersion(e1))
                    /\ TestFileOf(i1, DrawnVersion(e1)).data.name = get_hash(DrawnVersion(e1))
                    /\ HasCheckCell(i1, n1) /\ HasCheckCell(i2, n2)

\* Two written instances hold the same version of a question with tests, at
\* different places of their notebooks.
C19_Witness ==
    /\ Get(Exam.config, "public_tests", FALSE)
    /\ \E i1, i2 \in Instances : \E n1 \in 1..Len(ILog(i1)) : \E n2 \in 1..Len(ILog(i2)) :
           /\ i1 # i2 /\ n1 # n2
           /\ ILog(i1)[n1].q = ILog(i2)[n2].q /\ ILog(i1)[n1].v = ILog(i2)[n2].v
           /\ ~Exam.questions[ILog(i1)[n1].q + 1].manual
           /\ Len(DrawnVersion(ILog(i1)[n1]).tests) > 0


---------------------------------------------------------------------------
(* Claims about replace_solutions, checked under SpecSolutions.            *)

IsBeginSolutionLine(line) ==
    line \in {"# BEGIN SOLUTION", "    # BEGIN SOLUTION", "# BEGIN SOLUTION NO PROMPT"}

\* Line k is a BEGIN SOLUTION line inside a block that line j opened and no
\* line between them closed.
NestedAt(lines, j, k) ==
    /\ j < k
    /\ IsBeginSolutionLine(lines[j]) /\ IsBeginSolutionLine(lines[k])
    /\ \A m \in (j + 1)..(k - 1) : lines[m] # "# END SOLUTION"

\* C20: replace_solutions does not return for lines in which a BEGIN SOLUTION
\* line stands inside an open BEGIN SOLUTION ... END SOLUTION block: it fails.
C20_NestedBeginSolutionFails ==
    pc = "replaced" =>
        ~\E j, k \in 1..Len(sol.lines) : NestedAt(sol.lines, j, k)


IsEndSolutionLine(line) == line \in {"# END SOLUTION", "    # END SOLUTION"}

\* Line j is a BEGIN SOLUTION line and no END SOLUTION line follows it.
BeginWithoutEnd(lines, j) ==
    /\ IsBeginSolutionLine(lines[j])
    /\ \A k \in (j + 1)..Len(lines) : ~IsEndSolutionLine(lines[k])

\* Line k is an END SOLUTION line and no BEGIN SOLUTION line before it is
\* still open: each one is followed by an END SOLUTION line before line k.
EndWithoutBegin(lines, k) ==
    /\ IsEndSolutionLine(lines[k])
    /\ \A j \in 1..(k - 1) :
           IsBeginSolutionLine(lines[j]) =>
               \E m \in (j + 1)..(k - 1) : IsEndSolutionLine(lines[m])

Unbalanced(lines) ==
    \E j \in 1..Len(lines) : BeginWithoutEnd(lines, j) \/ EndWithoutBegin(lines, j)

\* C21: replace_solutions does not return for lines whose solution markers
\* are unbalanced (a BEGIN SOLUTION line with no later END SOLUTION line, or an
\* END SOLUTION line with no open BEGIN SOLUTION): it fails with an error.
C21_UnbalancedMarkersFail ==
    pc = "replaced" => ~Unbalanced(sol.lines)

\* A closed block followed by an END SOLUTION line, and a block left open.
C21_Witness ==
    /\ pc = "failed"
    /\ err = "BEGIN SOLUTION without END SOLUTION"
    /\ \E j \in 1..Len(sol.lines) : BeginWithoutEnd(sol.lines, j)
    /\ \E k \in 1..Len(sol.lines) : IsEndSolutionLine(sol.lines[k])


\* Line i lies in a block: after a BEGIN SOLUTION line that no END SOLUTION
\* line before line i has closed (the block's END SOLUTION line included).
InBlock(lines, i) ==
    \E j \in 1..(i - 1) :
        /\ IsBeginSolutionLine(lines[j])
        /\ \A m \in (j + 1)..(i - 1) : ~IsEndSolutionLine(lines[m])

\* The leading whitespace of a BEGIN SOLUTION line.
IndentationOf(line) == IF line = "    # BEGIN SOLUTION" THEN "    " ELSE ""

CarriesNoPrompt(line) == line = "# BEGIN SOLUTION NO PROMPT"

\* Balanced markers, and no BEGIN SOLUTION line inside a block.
WellFormed(lines) ==
    /\ ~Unbalanced(lines)
    /\ \A i \in 1..Len(lines) : IsBeginSolutionLine(lines[i]) => ~InBlock(lines, i)

\* What line i leaves in the output: nothing for a line in a block, the
\* placeholder for a BEGIN SOLUTION line, and what replace_solutions makes of
\* the line on its own for a line outside the blocks.
PieceOf(lines, i) ==
    IF InBlock(lines, i) THEN << >>
    ELSE IF IsBeginSolutionLine(lines[i])
    THEN IF CarriesNoPrompt(lines[i]) THEN << >> ELSE <<IndentationOf(lines[i]) \o "...">>
    ELSE replace_solutions(<<lines[i]>>).stripped

RECURSIVE PiecesUpTo(_, _)
PiecesUpTo(lines, n) ==
    IF n = 0 THEN << >> ELSE PiecesUpTo(lines, n - 1) \o PieceOf(lines, n)

\* C22: for well-formed lines the output is, in order, one placeholder line
\* at the BEGIN line's indentation for each BEGIN SOLUTION ... END SOLUTION
\* block (no line when the BEGIN line carries NO PROMPT) and the lines outside
\* the blocks: no line of a block and no marker line is in it.
C22_BlockBecomesOnePlaceholder ==
    (pc = "replaced" /\ WellFormed(sol.lines)) =>
        sol.st.stripped = PiecesUpTo(sol.lines, Len(sol.lines))

\* An indented block holding a line, with a line after it.
C22_Witness ==
    /\ pc = "replaced"
    /\ sol.lines = <<"    # BEGIN SOLUTION", "x = 1 # SOLUTION", "# END SOLUTION", "y = 2">>
    /\ sol.st.stripped = <<"    ...", "y = 2">>


---------------------------------------------------------------------------
(* Claims about replace_cell_solutions, checked under SpecCells.           *)

\* The line carries a solution or prompt marker.
HasSolutionMarker(line) ==
    line \notin {"", "y = 2", "Explain."}

MarkerFree(c) == \A k \in 1..Len(c.source) : ~HasSolutionMarker(c.source[k])

\* C23: stripping a cell with no solution marker in it returns a cell of the
\* same type with the same lines in the same order.
C23_MarkerFreeCellUnchanged ==
    (pc = "stripped" /\ MarkerFree(cell)) =>
        /\ new_cell.cell_type = cell.cell_type
        /\ new_cell.source = cell.source

\* A marker-free Markdown cell of two lines has been stripped.
C23_Witness ==
    /\ pc = "stripped"
    /\ cell = MarkdownCell(<<"Explain.", "">>)
    /\ new_cell = cell


\* The line ends in the inline solution marker.
EndsWithSolutionMarker(line) ==
    line \in {"x = 1 # SOLUTION", "    x = 1 # SOLUTION", "f(x) # SOLUTION",
              "d[0] = 1 # SOLUTION", "print('#') # SOLUTION"}

\* The line is tagged SOLUTION NO PROMPT, BEGIN PROMPT or END PROMPT.
IsTaggedLine(line) ==
    line \in {"z = 3 # SOLUTION NO PROMPT", "# BEGIN PROMPT", "# END PROMPT"}

\* What a line ending in the inline marker is to become: the left-hand side
\* and an ellipsis for an assignment, an ellipsis for a bare expression, after
\* the line's indentation.
InlineReplacement(line) ==
    CASE line = "x = 1 # SOLUTION"      -> "x = ..."
      [] line = "    x = 1 # SOLUTION"  -> "    x = ..."
      [] line = "d[0] = 1 # SOLUTION"   -> "d[0] = ..."
      [] line = "f(x) # SOLUTION"       -> "..."
      [] line = "print('#') # SOLUTION" -> "..."

\* What a line outside the solution blocks is to leave in the output.
LineStripped(line) ==
    IF IsTaggedLine(line) THEN << >>
    ELSE IF EndsWithSolutionMarker(line) THEN <<InlineReplacement(line)>>
    ELSE <<line>>

RECURSIVE LinesStripped(_, _)
LinesStripped(lines, n) ==
    IF n = 0 THEN << >> ELSE LinesStripped(lines, n - 1) \o LineStripped(lines[n])

NoBlockMarker(c) ==
    \A k \in 1..Len(c.source) :
        ~IsBeginSolutionLine(c.source[k]) /\ ~IsEndSolutionLine(c.source[k])

\* C24: in a code cell without solution blocks, a line ending in the inline
\* solution marker is replaced by "<left-hand side> ..." (an assignment) or
\* "..." (a bare expression) after its indentation, a line tagged SOLUTION NO
\* PROMPT, BEGIN PROMPT or END PROMPT is dropped, and the other lines stay.
C24_InlineSolutionReplaced ==
    (pc = "stripped" /\ is_code_cell(cell) /\ NoBlockMarker(cell)) =>
        new_cell.source = SplitJoined(LinesStripped(cell.source, Len(cell.source)))


---------------------------------------------------------------------------
(* Further claims about main, checked under Spec.                          *)

\* The questions as parse_notebook leaves them: no version parsed, no cell
\* rendered.
FreshQuestions == parse_notebook(NoExam, nb).E.questions

RECURSIVE TextOf(_, _)
\* The lines of cells 1 .. n, each cell's joined by newlines, end to end.
TextOf(cells, n) ==
    IF n = 0 THEN "" ELSE TextOf(cells, n - 1) \o JoinLines(cells[n].source)

\* C25: at every point of a run after the parse (a version parsed or not,
\* the autograder notebook and any number of instances written, outputs
\* removed) get_hash of a version is what it was when the version was made:
\* the source text of its raw cells, in order.
C25_HashStable ==
    pc \notin {"main", "failed"} =>
        \A fresh \in {FreshQuestions} :
        \A q \in 1..Len(Exam.questions) : \A v \in 1..Len(Exam.questions[q].versions) :
            /\ get_hash(Exam.questions[q].versions[v]) = get_hash(fresh[q].versions[v])
            /\ get_hash(Exam.questions[q].versions[v])
                   = TextOf(fresh[q].versions[v].original_cells,
                            Len(fresh[q].versions[v].original_cells))

\* Two instances and the autograder notebook are written, and the outputs
\* of a parsed version's rendered cells have been removed.
C25_Witness ==
    /\ pc = "done"
    /\ AutograderWritten /\ Written(0) /\ Written(1)
    /\ \E k \in 1..Len(log) :
           /\ DrawnVersion(log[k]).cells_without_solutions # << >>
           /\ HasOutput(DrawnVersion(log[k]).original_cells)
           /\ ~HasOutput(DrawnVersion(log[k]).cells_without_solutions[1])


IndicesOf(xs) == {xs[k] : k \in 1..Len(xs)}

\* unused_versions of every question holds indices of its versions, none twice.
UnusedInRange ==
    \A q \in 1..Len(Exam.questions) :
        /\ IndicesOf(Exam.questions[q].unused_versions) \subseteq 0..(Len(Exam.questions[q].versions) - 1)
        /\ Cardinality(IndicesOf(Exam.questions[q].unused_versions))
               = Len(Exam.questions[q].unused_versions)

\* The step is a call of choose_version that returns: a draw is logged.
ChooseVersionStep == Len(log') = Len(log) + 1

\* What a call of choose_version that logs the draw e does to question e.q:
\* the index drawn was in unused_versions (all indices, if it was empty), that
\* index alone is removed, and the cells rendered are that version's.
ChoosesFrom(e) ==
    LET old   == Exam.questions[e.q + 1].unused_versions
        new   == Exam'.questions[e.q + 1].unused_versions
        k     == Len(Exam.questions[e.q + 1].versions)
        avail == IF Len(old) = 0 THEN 0..(k - 1) ELSE IndicesOf(old)
        cells == Exam'.questions[e.q + 1].versions[e.v + 1].cells_without_solutions[1]
    IN  /\ e.v \in avail
        /\ IndicesOf(new) = avail \ {e.v}
        /\ Len(new) = IF Len(old) > 0 THEN Len(old) - 1 ELSE k - 1
        /\ SubSeq(loop'.student, Len(loop.student) + 2, Len(loop.student) + 1 + Len(cells)) = cells
        /\ \A q \in 1..Len(Exam.questions) :
               q # e.q + 1 => Exam'.questions[q].unused_versions = Exam.questions[q].unused_versions

\* C26: unused_versions of a question with k versions always holds indices
\* in [0, k), none twice; a call of choose_version returns the version at an
\* index that was in unused_versions (after the refill, if it was empty) and
\* removes that index alone: the size goes from s to s-1, from 0 to k-1.
C26_UnusedVersionsInvariant ==
    [][/\ UnusedInRange /\ UnusedInRange'
       /\ ChooseVersionStep => ChoosesFrom(log'[Len(log')])]_vars

\* A question of three versions has drawn from a full, a partial and an
\* emptied list.
C26_Witness ==
    \E a, b, c \in 1..Len(log) :
        /\ log[a].q = log[b].q /\ log[b].q = log[c].q
        /\ NumVersions(log[a].q) = 3
        /\ log[a].u = 3 /\ log[b].u = 1 /\ log[c].u = 0
        /\ a < b /\ b < c


---------------------------------------------------------------------------
(* Further claims about parse_notebook, checked under SpecParse.           *)

OpenBlocks(p) == {d \in {"introduction", "question", "conclusion"} : IsOpen(p, d)}

\* C27: after any prefix of cells consumed without an error, at most one of
\* the introduction, question and conclusion blocks is open, and a version
\* block is open only while a question block is (so END QUESTION is accepted
\* only when no version block is open).
C27_VersionOpenOnlyInQuestion ==
    pc \in {"parsing", "parsed"} =>
        /\ Cardinality(OpenBlocks(parser)) <= 1
        /\ parser.in_version => parser.in_question


\* A question block has just been closed by END QUESTION.
QuestionJustClosed ==
    /\ pc = "parsing"
    /\ ncells > 0
    /\ is_delim_cell(cell, "question", FALSE)

\* The places of the END VERSION cells in the cells of a question block.
EndVersionsIn(cs) == {i \in 1..Len(cs) : is_delim_cell(cs[i], "version", FALSE)}

DeclaresVersion(cs) == \E i \in 1..Len(cs) : is_delim_cell(cs[i], "version", TRUE)

\* The place of the k-th END VERSION cell (0 for k = 0).
EndVersionAt(cs, k) ==
    IF k = 0 THEN 0
    ELSE CHOOSE i \in EndVersionsIn(cs) : Cardinality({j \in EndVersionsIn(cs) : j < i}) = k - 1

\* The content cells of the block that the k-th END VERSION closes: those
\* after the END VERSION before it.
ClosedBy(cs, k) ==
    SelectSeq(SubSeq(cs, EndVersionAt(cs, k - 1) + 1, EndVersionAt(cs, k) - 1),
              LAMBDA c : ~IsBeginCell(c))

\* The Question made of a block with version blocks holds one version for
\* each END VERSION of the block, in order, of cells of that block.
HoldsOwnVersions ==
    (QuestionJustClosed /\ DeclaresVersion(block)) =>
        /\ Len(LastQuestion.versions) = Cardinality(EndVersionsIn(block))
        /\ \A k \in 1..Len(LastQuestion.versions) :
               LastQuestion.versions[k].original_cells = ClosedBy(block, k)

\* No version is pending when a question block opens.
OpensWithoutVersions == (parser.in_question /\ block = << >>) => parser.versions = << >>

\* The step opens a question block, and the step closes one.
OpensQuestion == pc = "parsing" /\ ~parser.in_question /\ parser'.in_question

ClosesQuestion == pc = "parsing" /\ Len(parser'.questions) = Len(parser.questions) + 1

\* C28: the i-th Question holds exactly the versions closed by END VERSION
\* between the i-th BEGIN QUESTION and its END QUESTION, in document order,
\* with the points and manual of that BEGIN QUESTION cell (1 and false by
\* default): nothing of one question block ends up in another Question.
C28_QuestionHoldsOwnVersions ==
    /\ [](HoldsOwnVersions /\ OpensWithoutVersions)
    /\ [][OpensQuestion => parser'.config = cell'.yaml]_vars
    /\ [][(parser.in_question /\ parser'.in_question) => parser'.config = parser.config]_vars
    /\ [][ClosesQuestion =>
            /\ parser'.questions[Len(parser'.questions)].points = Get(parser.config, "points", 1)
            /\ parser'.questions[Len(parser'.questions)].manual = Get(parser.config, "manual", FALSE)
            /\ parser'.versions = << >> /\ parser'.cells = << >> /\ parser'.config = NoYaml]_vars


AnyBlockOpen(p) == p.in_introduction \/ p.in_question \/ p.in_version \/ p.in_conclusion

\* C29: a BEGIN INTRODUCTION, BEGIN QUESTION or BEGIN CONCLUSION cell met
\* while any block is open ends the parse with an error, and so does a BEGIN
\* VERSION cell met outside a question block or inside an open version block.
C29_MisplacedBeginFails ==
    [][ParseIterationStep =>
          /\ (\E d \in {"introduction", "question", "conclusion"} :
                  is_delim_cell(cell', d, TRUE) /\ AnyBlockOpen(parser))
                 => (pc' = "failed" /\ err' # "" /\ parser' = parser /\ Exam' = Exam)
          /\ (is_delim_cell(cell', "version", TRUE) /\ (~parser.in_question \/ parser.in_version))
                 => (pc' = "failed" /\ err' # "" /\ parser' = parser /\ Exam' = Exam)]_vars

\* A BEGIN VERSION cell met inside an open version block has ended the parse.
C29_Witness ==
    /\ pc = "failed"
    /\ is_delim_cell(cell, "version", TRUE)
    /\ parser.in_version /\ parser.in_question
    /\ err = "BEGIN VERSION detected inside an incompatible block or outside a question block"


\* A version block has just been closed by END VERSION.
VersionJustClosed ==
    /\ pc = "parsing"
    /\ ncells > 0
    /\ is_delim_cell(cell, "version", FALSE)
    /\ parser.in_question

\* The place of the last BEGIN VERSION cell among the cells of the block.
LastBeginVersion(cs) ==
    CHOOSE i \in 1..Len(cs) :
        /\ is_delim_cell(cs[i], "version", TRUE)
        /\ \A j \in (i + 1)..Len(cs) : ~is_delim_cell(cs[j], "version", TRUE)

\* The cells of the block after its last BEGIN VERSION, the END VERSION that
\* was just read excluded, BEGIN EXAM cells left out.
CellsOfLastVersionBlock(cs) == Buffered(SubSeq(cs, LastBeginVersion(cs) + 1, Len(cs) - 1))

\* C30: the raw cells of a declared Version are exactly the cells between its
\* BEGIN VERSION and its END VERSION, in order: a cell of the question block
\* before the first BEGIN VERSION, or between an END VERSION and the next
\* BEGIN VERSION, is part of no version.
C30_VersionHoldsItsBlockOnly ==
    VersionJustClosed =>
        parser.versions[Len(parser.versions)].original_cells = CellsOfLastVersionBlock(block)


\* The place of the last END VERSION cell among the cells of the block.
LastEndVersion(cs) == EndVersionAt(cs, Cardinality(EndVersionsIn(cs)))

\* The cells of the block after its last END VERSION.
Trailing(cs) == SubSeq(cs, LastEndVersion(cs) + 1, Len(cs))

\* The block has declared versions, all closed, and content cells after the
\* last END VERSION.
HasTrailingCells(cs) ==
    /\ EndVersionsIn(cs) # {}
    /\ Len(Trailing(cs)) > 0
    /\ \A i \in 1..Len(Trailing(cs)) : ~IsDelimiterCell(Trailing(cs)[i])

\* C31: in a question block with at least one declared version, the cells
\* between the last END VERSION and END QUESTION are dropped without an
\* error: END QUESTION is accepted, the Question's versions are those the END
\* VERSION cells closed, and nothing is left in the buffer for a later block.
C31_TrailingCellsDropped ==
    [][(/\ ParseIterationStep /\ is_delim_cell(cell', "question", FALSE)
        /\ parser.in_question /\ HasTrailingCells(block))
          => /\ pc' = "parsing" /\ err' = ""
             /\ Len(parser'.questions) = Len(parser.questions) + 1
             /\ Len(parser'.questions[Len(parser'.questions)].versions)
                    = Cardinality(EndVersionsIn(block))
             /\ \A k \in 1..Cardinality(EndVersionsIn(block)) :
                    parser'.questions[Len(parser'.questions)].versions[k].original_cells
                        = ClosedBy(block, k)
             /\ parser'.cells = << >> /\ parser'.versions = << >>
             /\ Exam'.questions = parser'.questions
             /\ Exam'.introduction = Exam.introduction /\ Exam'.conclusion = Exam.conclusion]_vars

\* A block whose one version is followed by a content cell has been closed.
C31_Witness ==
    /\ QuestionJustClosed
    /\ HasTrailingCells(block)
    /\ Len(LastQuestion.versions) = 1
    /\ parser.cells = << >>


---------------------------------------------------------------------------
(* Claims about what the generation leaves of the parsed Exam, checked     *)
(* under Spec.                                                             *)

\* The Exam as parse_notebook leaves it.
FreshExam == parse_notebook(NoExam, nb).E

\* C32: after the parse, generating the autograder notebook and the
\* instances leaves Exam.config, the introduction's and the conclusion's
\* cells (type, source, outputs) and every version's raw cells as the parse
\* made them.
C32_ExamReadOnlyAfterParse ==
    pc \notin {"main", "failed"} =>
        \A fresh \in {FreshExam} :
            /\ Exam.config = fresh.config
            /\ Exam.introduction = fresh.introduction
            /\ Exam.conclusion = fresh.conclusion
            /\ Len(Exam.questions) = Len(fresh.questions)
            /\ \A q \in 1..Len(Exam.questions) :
                   /\ Len(Exam.questions[q].versions) = Len(fresh.questions[q].versions)
                   /\ \A v \in 1..Len(Exam.questions[q].versions) :
                          Exam.questions[q].versions[v].original_cells
                              = fresh.questions[q].versions[v].original_cells


\* The versions of the Exam that get_cells has parsed, as <<q, v>>.
ParsedVersions ==
    {qv \in UNION {{<<q, v>> : v \in 1..Len(Exam.questions[q].versions)} :
                      q \in 1..Len(Exam.questions)} :
        Exam.questions[qv[1]].versions[qv[2]].cells_with_solutions # << >>}

VersionAt(E, qv) == E.questions[qv[1]].versions[qv[2]]

TestCellsOf(version) == SelectSeq(version.original_cells, is_test_cell)

\* The derived fields are those of one pass over the raw cells: a Test for
\* each test cell, an entry of either projection for each other cell.
DerivedOnce(version) ==
    /\ version.cells_without_solutions # << >>
    /\ version.tests = [k \in 1..Len(TestCellsOf(version)) |-> read_test(TestCellsOf(version)[k])]
    /\ version.cells_with_solutions[1] = SolutionContent(version)
    /\ Len(version.cells_without_solutions[1]) = Len(version.cells_with_solutions[1])
    /\ \A k \in 1..Len(version.cells_with_solutions[1]) :
           remove_output(<<version.cells_without_solutions[1][k]>>)
               = remove_output(<<replace_cell_solutions(version.cells_with_solutions[1][k]).cell>>)

\* C33: once get_cells has parsed a version, its tests hold one Test per
\* test cell of the raw cells, in order, and its two projections one entry
\* per other raw cell, in the same order; a later get_cells call, with either
\* flag, leaves the tests and both projections as they are.
C33_DerivedFieldsComputedOnce ==
    [][\A qv \in ParsedVersions :
          /\ DerivedOnce(VersionAt(Exam, qv))
          /\ pc' # "main" =>
                 /\ DerivedOnce(VersionAt(Exam', qv))
                 /\ VersionAt(Exam', qv).tests = VersionAt(Exam, qv).tests
                 /\ VersionAt(Exam', qv).cells_with_solutions = VersionAt(Exam, qv).cells_with_solutions
                 /\ ChooseVersionStep =>
                        VersionAt(Exam', qv).cells_without_solutions
                            = VersionAt(Exam, qv).cells_without_solutions]_vars

\* A version of three tests has been rendered with solutions once and
\* without them twice.
C33_Witness ==
    \E a, b \in 1..Len(log) :
        /\ a < b
        /\ log[a].q = log[b].q /\ log[a].v = log[b].v
        /\ AutograderWritten
        /\ Len(DrawnVersion(log[a]).tests) = 3
        /\ Len(DrawnVersion(log[a]).cells_without_solutions[1]) >= 1


\* The cells replace_cell_solutions was given for the parsed version, as the
\* parse of the master made them.
InputCells(fresh, qv) == SolutionContent(VersionAt(fresh, qv))

---------------------------------------------------------------------------
(* Claims about the tail of main, checked under Spec.                      *)

AsksForPackaging == Get(Exam.config, "generate", NoYaml) # NoYaml

AllInstancesWritten ==
    /\ "num_students" \in DOMAIN Exam.config
    /\ \A i \in 0..(Exam.config["num_students"] - 1) : Written(i)

\* C35 as stated: with a non-empty generate mapping in the config, main runs
\* the packaging step exactly once, after the autograder notebook and all
\* num_students instances are written, with -q and without: the step is never
\* run twice, never before those files are there, and has run when main has
\* returned.
C35_PackagingRunsOnce ==
    /\ generated <= 1
    /\ generated = 1 => AutograderWritten /\ AllInstancesWritten
    /\ (pc = "done" /\ AsksForPackaging) => generated = 1



AutograderTestOf(version) == fs[<<"autograder", "tests", get_hash(version) \o ".py">>].data

\* The cases of a version: one for each test cell of its raw cells, in order.
AllCases(version) ==
    [k \in 1..Len(TestCellsOf(version)) |-> gen_case(read_test(TestCellsOf(version)[k]))]

\* C36: when main has returned, the autograder's tests directory holds, for
\* every version of every question that is not manual, the test file named by
\* the version's hash with every case of the version, the hidden ones
\* included, in order, whatever public_tests is and however many instances
\* were written.
C36_AutograderKeepsHiddenCases ==
    pc = "done" =>
        \A q \in 1..Len(Exam.questions) : \A v \in 1..Len(Exam.questions[q].versions) :
            ~Exam.questions[q].manual =>
                LET version == Exam.questions[q].versions[v]
                IN  /\ HasAutograderTest(version)
                    /\ Len(AutograderTestOf(version).suites) = 1
                    /\ AutograderTestOf(version).suites[1].cases = AllCases(version)

\* main has returned with public_tests enabled and several instances written;
\* the test file of a version drawn for one of them has lost its hidden cases
\* in the instance's directory and holds them in the autograder's.
C36_Witness ==
    /\ pc = "done"
    /\ Get(Exam.config, "public_tests", FALSE)
    /\ \E i1, i2 \in Instances : i1 # i2
    /\ \E k \in 1..Len(log) :
           /\ ~Exam.questions[log[k].q + 1].manual
           /\ HasTestFile(log[k].i, DrawnVersion(log[k]))
           /\ NoHiddenCase(TestFileOf(log[k].i, DrawnVersion(log[k])).data)
           /\ ~NoHiddenCase(AutograderTestOf(DrawnVersion(log[k])))

=============================================================================
